---- MODULE Spec2Model ----
(***************************************************************************)
(* A model of core_dsl.go of Ginkgo: the RunSpecs entry point with its     *)
(* process-wide state and exit paths, and the failure signalling           *)
(* primitives Fail, Skip, AbortSuite and GinkgoRecover.                    *)
(*                                                                         *)
(* Strings the code inspects character by character (the output            *)
(* interceptor mode, the GINKGO_EDITOR_INTEGRATION variable) are sequences *)
(* of one-character strings, so that strings.ToLower and strings.TrimSpace *)
(* are computed and not assumed.                                           *)
(***************************************************************************)
EXTENDS Integers, Sequences, FiniteSets, TLC

\* ------------------------------------------------------------------------
\* Bounds
\* ------------------------------------------------------------------------

\* the longest argument list handed to RunSpecs
MaxArgs == 2

\* the number of RunSpecs calls one process attempts
MaxCalls == 3

\* ------------------------------------------------------------------------
\* Strings
\* ------------------------------------------------------------------------

Uppers == <<"A","B","C","D","E","F","G","H","I","J","K","L","M",
            "N","O","P","Q","R","S","T","U","V","W","X","Y","Z">>

Lowers == <<"a","b","c","d","e","f","g","h","i","j","k","l","m",
            "n","o","p","q","r","s","t","u","v","w","x","y","z">>

ToLowerChar(c) ==
    IF \E i \in 1..Len(Uppers) : Uppers[i] = c
    THEN Lowers[CHOOSE i \in 1..Len(Uppers) : Uppers[i] = c]
    ELSE c

\* strings.ToLower
ToLower(s) == [i \in 1..Len(s) |-> ToLowerChar(s[i])]

IsSpace(c) == c \in {" ", "\t", "\n", "\r", "\f"}

RECURSIVE TrimLeft(_)
TrimLeft(s) ==
    IF s # <<>> /\ IsSpace(Head(s)) THEN TrimLeft(Tail(s)) ELSE s

RECURSIVE TrimRight(_)
TrimRight(s) ==
    IF s # <<>> /\ IsSpace(s[Len(s)])
    THEN TrimRight(SubSeq(s, 1, Len(s) - 1))
    ELSE s

\* strings.TrimSpace
TrimSpace(s) == TrimRight(TrimLeft(s))

\* ------------------------------------------------------------------------
\* Configuration values and RunSpecs arguments
\* ------------------------------------------------------------------------

\* the values of suiteConfig.OutputInterceptorMode that are tried
Modes == { <<"s","w","a","p">>, <<"S","w","A","p">>,
           <<"N","O","N","E">>, <<"d","u","p">> }

\* the values of the GINKGO_EDITOR_INTEGRATION environment variable
EnvValues == { <<>>, <<" ">>, <<" ","\t">>, <<"1">>, <<" ","1"," ">> }

SuiteConfigs == [ParallelTotal : {0, 1, 2}, OutputInterceptorMode : Modes]

ReporterConfigs == [Verbose : BOOLEAN, Succinct : BOOLEAN]

\* types.NewDefaultSuiteConfig()
DefaultSuiteConfig == [ParallelTotal |-> 1, OutputInterceptorMode |-> <<>>]

\* types.NewDefaultReporterConfig()
DefaultReporterConfig == [Verbose |-> FALSE, Succinct |-> FALSE]

\* the dynamic kinds of a RunSpecs argument: the three cases of the type
\* switch and two values of other types
ArgValues ==
    [kind : {"SuiteConfig"}, val : SuiteConfigs]
    \cup [kind : {"ReporterConfig"}, val : ReporterConfigs]
    \cup [kind : {"Labels"}, val : {<<"l1">>}]
    \cup [kind : {"Other"}, val : {"int", "string"}]

ArgLists == UNION {[1..n -> ArgValues] : n \in 0..MaxArgs}

\* types.GinkgoErrors.UnknownTypePassedToRunSpecs(arg)
UnknownTypePassedToRunSpecs(arg) ==
    [err |-> "UnknownTypePassedToRunSpecs", arg |-> arg.val]

\* the loop keeping only the first error
RECURSIVE MergeArgsFirstError(_, _, _, _)
MergeArgsFirstError(as, n, sc, rc) ==
    IF n = 0
    THEN [suiteConfig |-> sc, reporterConfig |-> rc,
          suiteLabels |-> <<>>, configErrors |-> <<>>]
    ELSE LET m   == MergeArgsFirstError(as, n - 1, sc, rc)
             arg == as[n]
         IN CASE arg.kind = "SuiteConfig" ->
                    [m EXCEPT !.suiteConfig = arg.val]
              [] arg.kind = "ReporterConfig" ->
                    [m EXCEPT !.reporterConfig = arg.val]
              [] arg.kind = "Labels" ->
                    [m EXCEPT !.suiteLabels = @ \o arg.val]
              [] OTHER ->
                    IF m.configErrors = <<>>
                    THEN [m EXCEPT !.configErrors =
                                  <<[err |-> "UnknownTypePassedToRunSpecs",
                                     arg |-> arg.val]>>]
                    ELSE m

\* the loop over args of RunSpecs: the state of (suiteConfig,
\* reporterConfig, suiteLabels, configErrors) after the first n arguments
RECURSIVE MergeArgs(_, _, _, _)
MergeArgs(args, n, sc, rc) ==
    IF n = 0
    THEN [suiteConfig |-> sc, reporterConfig |-> rc,
          suiteLabels |-> <<>>, configErrors |-> <<>>]
    ELSE LET m   == MergeArgs(args, n - 1, sc, rc)
             arg == args[n]
         IN CASE arg.kind = "SuiteConfig" ->
                    [m EXCEPT !.suiteConfig = arg.val]
              [] arg.kind = "ReporterConfig" ->
                    [m EXCEPT !.reporterConfig = arg.val]
              [] arg.kind = "Labels" ->
                    [m EXCEPT !.suiteLabels = @ \o arg.val]
              [] OTHER ->
                    [m EXCEPT !.configErrors =
                                  Append(@, UnknownTypePassedToRunSpecs(arg))]

\* types.VetConfig: every violation of the merged configuration, at once
VetConfig(sc, rc) ==
    (IF sc.ParallelTotal < 1
     THEN <<[err |-> "InvalidParallelTotalConfiguration", arg |-> "none"]>>
     ELSE <<>>)
    \o
    (IF rc.Verbose /\ rc.Succinct
     THEN <<[err |-> "ConflictingVerbosityConfiguration", arg |-> "none"]>>
     ELSE <<>>)

\* types.GINKGO_FOCUS_EXIT_CODE, the status of a passed run with focused specs
GINKGO_FOCUS_EXIT_CODE == "GINKGO_FOCUS_EXIT_CODE"

\* ------------------------------------------------------------------------
\* State
\* ------------------------------------------------------------------------

VARIABLES
    suiteDidRun,        \* var suiteDidRun
    suiteConfig,        \* var suiteConfig
    reporterConfig,     \* var reporterConfig
    outputInterceptor,  \* var outputInterceptor: "nil" or the kind selected
    client,             \* var client: "nil" or "connected"
    writerMode,         \* the mode of GinkgoWriter
    env,                \* os.Getenv("GINKGO_EDITOR_INTEGRATION")
    pc,                 \* the position of the RunSpecs call in progress
    callNo,             \* the number of RunSpecs calls made so far
    args,               \* parameter args of RunSpecs, once the loop read it
    suiteLabels,        \* local suiteLabels of RunSpecs
    reporter,           \* local reporter of RunSpecs
    deferred,           \* whether defer client.Close() was registered
    runArgs,            \* <<what was handed to global.Suite.Run>>, <<>> before
    process,            \* "alive" or the exit status of the process
    suiteResult,        \* <<what global.Suite.Run returned>>, <<>> before
    retval,             \* <<the value RunSpecs returned>>, <<>> before
    stderr,             \* the errors printed to formatter.ColorableStdErr
    log                 \* history: the calls made on the collaborators

runVars == <<suiteDidRun, suiteConfig, reporterConfig, outputInterceptor,
             client, writerMode, env, pc, callNo, args, suiteLabels,
             reporter, deferred, runArgs, process, suiteResult, retval, stderr, log>>

VARIABLES
    failer,             \* global.Failer: its state and its failure record
    task,               \* the main path and the goroutines of the spec
    signalled,          \* history: the calls made on global.Failer
    outcome             \* <<the state the Suite read at the end>>, <<>> before

sigVars == <<failer, task, signalled, outcome>>

VARIABLES
    nodes,              \* the nodes pushed onto the suite, in order
    open,               \* the containers whose body is being run, outermost first
    phase,              \* "declaring", then "ran"
    treeResult          \* <<what the run of the tree gave>>, <<>> before

treeVars == <<nodes, open, phase, treeResult>>

VARIABLES
    plan,               \* the nodes the Suite runs, in the order it runs them
    at,                 \* the place in plan of the node that runs or is next
    specState,          \* what the Suite recorded for each spec
    skipRest,           \* the Suite was told to skip the specs that follow
    cleanups,           \* the cleanup nodes the Suite holds, oldest first
    deferCalls,         \* history: the calls of DeferCleanup
    trace,              \* history: nodes and cleanups in the order they ran
    runPassed           \* <<what Suite.Run returns>>, <<>> while it runs

suiteVars == <<plan, at, specState, skipRest, cleanups, deferCalls, trace, runPassed>>

VARIABLES
    total,              \* the number of parallel processes of the run
    where,              \* how far each process is in its run
    barrier,            \* what process #1 published of its first function
    ranFns              \* history: the functions run, with process and data

parVars == <<total, where, barrier, ranFns>>

VARIABLES
    called              \* history: <<the declaration call made>>, <<>> before

callVars == <<called>>

vars == <<runVars, sigVars, treeVars, suiteVars, parVars, callVars>>

\* what the steps of RunSpecs leave alone
notRunVars == <<sigVars, treeVars, suiteVars, parVars, callVars>>

\* what the signals of a spec leave alone
notSigVars == <<runVars, treeVars, suiteVars, parVars, callVars>>

\* what the declarations leave alone, but for the variables of RunSpecs
notTreeVars == <<sigVars, suiteVars, parVars, callVars>>

\* what the Suite leaves alone while it runs the nodes
notSuiteVars == <<runVars, treeVars, parVars, callVars>>

\* what the processes of a parallel run leave alone
notParVars == <<runVars, sigVars, treeVars, suiteVars, callVars>>

\* the variables of RunSpecs that an exit of the process leaves alone
runRest == <<suiteDidRun, suiteConfig, reporterConfig, outputInterceptor,
             client, writerMode, env, pc, callNo, args, suiteLabels,
             reporter, deferred, runArgs, suiteResult, retval>>

\* the events of call c, in order
Ev(c, es) == [i \in 1..Len(es) |-> [call |-> c, ev |-> es[i]]]

\* ------------------------------------------------------------------------
\* exitIfErr, exitIfErrors
\* ------------------------------------------------------------------------

\* what exitIfErr and exitIfErrors do before printing, given the globals
Release(oi, cl) ==
    (IF oi # "nil" THEN <<"Shutdown">> ELSE <<>>)
    \o (IF cl # "nil" THEN <<"Close">> ELSE <<>>)

\* exitIfErr without the Shutdown of the output interceptor
exitIfErrLeaksInterceptor(err, oi, cl) ==
    IF err # "nil"
    THEN (IF cl # "nil" THEN <<"Close">> ELSE <<>>) \o <<"Stderr", "Exit1">>
    ELSE <<>>

\* exitIfErr(err): the calls it makes, <<>> when it returns to its caller
exitIfErr(err, oi, cl) ==
    IF err # "nil"
    THEN Release(oi, cl) \o <<"Stderr", "Exit1">>
    ELSE <<>>

\* exitIfErrors(errors): the calls it makes, <<>> when it returns
exitIfErrors(errors, oi, cl) ==
    IF Len(errors) > 0
    THEN Release(oi, cl) \o [i \in 1..Len(errors) |-> "Stderr"] \o <<"Exit1">>
    ELSE <<>>

\* the process was terminated by the calls es
Exits(es) == es # <<>>

\* one error as printed
Err(name) == [err |-> name, arg |-> "none"]

\* ------------------------------------------------------------------------
\* The decisions of RunSpecs
\* ------------------------------------------------------------------------

\* a single violation is let through
HasSeveralConfigIssues(errors) == Len(errors) > 1

\* if len(configErrors) > 0, after VetConfig
HasConfigIssues(errors) == Len(errors) > 0

\* the switch without strings.ToLower
SelectInterceptorCaseSensitive(mode) ==
    CASE mode = <<"s","w","a","p">> -> "OSGlobalReassigningOutputInterceptor"
      [] mode = <<"n","o","n","e">> -> "NoopOutputInterceptor"
      [] OTHER -> "OutputInterceptor"

\* switch strings.ToLower(suiteConfig.OutputInterceptorMode)
SelectInterceptor(mode) ==
    CASE ToLower(mode) = <<"s","w","a","p">> -> "OSGlobalReassigningOutputInterceptor"
      [] ToLower(mode) = <<"n","o","n","e">> -> "NoopOutputInterceptor"
      [] OTHER -> "OutputInterceptor"

\* client is not set to nil when Connect fails
ClientKeptAfterConnect(ok) == IF ok THEN "connected" ELSE "unconnected"

\* the value of the global client after client.Connect() returned ok
ClientAfterConnect(ok) == IF ok THEN "connected" ELSE "nil"

\* the mode chosen by verbosity alone
WriterModeByVerbosity(rc, sc) ==
    IF rc.Verbose
    THEN "WriterModeStreamAndBuffer"
    ELSE "WriterModeBufferOnly"

\* the argument of writer.SetMode
WriterModeFor(rc, sc) ==
    IF rc.Verbose /\ sc.ParallelTotal = 1
    THEN "WriterModeStreamAndBuffer"
    ELSE "WriterModeBufferOnly"

\* the condition without strings.TrimSpace
FocusExitUntrimmed(passed, hasFocusedTests, e) ==
    passed /\ hasFocusedTests /\ e = <<>>

\* the condition of the PASS | FOCUSED exit
FocusExit(passed, hasFocusedTests, e) ==
    passed /\ hasFocusedTests /\ TrimSpace(e) = <<>>

\* ------------------------------------------------------------------------
\* RunSpecs, step by step
\* ------------------------------------------------------------------------

RunInit ==
    /\ suiteDidRun = FALSE
    /\ suiteConfig = DefaultSuiteConfig
    /\ reporterConfig = DefaultReporterConfig
    /\ outputInterceptor = "nil"
    /\ client = "nil"
    /\ writerMode = "initial"
    /\ env \in EnvValues
    /\ pc = "idle"
    /\ callNo = 0
    /\ args = <<>>
    /\ suiteLabels = <<>>
    /\ reporter = "nil"
    /\ deferred = FALSE
    /\ runArgs = <<>>
    /\ process = "alive"
    /\ suiteResult = <<>>
    /\ retval = <<>>
    /\ stderr = <<>>
    /\ log = <<>>

\* the process terminates with status 1 after the calls es of exitIfErr(s)
Exit1(c, es, errors) ==
    /\ process' = "exit(1)"
    /\ stderr' = stderr \o errors
    /\ log' = log \o Ev(c, es)

\* RunSpecs without suiteDidRun = true
RunSpecsWithoutLatch ==
    /\ process = "alive"
    /\ pc \in {"idle", "running", "returned"}
    /\ callNo < MaxCalls
    /\ callNo' = callNo + 1
    /\ IF suiteDidRun
       THEN /\ Exit1(callNo + 1, <<"RunSpecs">>
                       \o exitIfErr("RerunningSuite", outputInterceptor, client),
                     <<Err("RerunningSuite")>>)
            /\ UNCHANGED <<suiteDidRun, pc, retval>>
       ELSE /\ UNCHANGED suiteDidRun
            /\ pc' = "merge"
            /\ retval' = <<>>
            /\ log' = log \o Ev(callNo + 1, <<"RunSpecs">>)
            /\ UNCHANGED <<process, stderr>>
    /\ UNCHANGED <<suiteConfig, reporterConfig, outputInterceptor, client,
                   writerMode, env, args, suiteLabels, reporter, deferred,
                   runArgs, suiteResult>>
    /\ UNCHANGED notRunVars

\* RunSpecs is called: at first, from a node body while the suite runs, or
\* after an earlier call returned; up to suiteDidRun = true
RunSpecs ==
    /\ process = "alive"
    /\ pc \in {"idle", "running", "returned"}
    /\ callNo < MaxCalls
    /\ callNo' = callNo + 1
    /\ IF suiteDidRun
       THEN /\ Exit1(callNo + 1, <<"RunSpecs">>
                       \o exitIfErr("RerunningSuite", outputInterceptor, client),
                     <<Err("RerunningSuite")>>)
            /\ UNCHANGED <<suiteDidRun, pc, retval>>
       ELSE /\ suiteDidRun' = TRUE
            /\ pc' = "merge"
            /\ retval' = <<>>
            /\ log' = log \o Ev(callNo + 1, <<"RunSpecs">>)
            /\ UNCHANGED <<process, stderr>>
    /\ UNCHANGED <<suiteConfig, reporterConfig, outputInterceptor, client,
                   writerMode, env, args, suiteLabels, reporter, deferred,
                   runArgs, suiteResult>>
    /\ UNCHANGED notRunVars

\* the loop over args and exitIfErrors(configErrors)
Merge ==
    /\ process = "alive"
    /\ pc = "merge"
    /\ \E as \in ArgLists :
         LET m  == MergeArgs(as, Len(as), suiteConfig, reporterConfig)
             es == exitIfErrors(m.configErrors, outputInterceptor, client)
         IN /\ args' = as
            /\ suiteConfig' = m.suiteConfig
            /\ reporterConfig' = m.reporterConfig
            /\ suiteLabels' = m.suiteLabels
            /\ IF Exits(es)
               THEN /\ Exit1(callNo, <<"MergeArgs">> \o es, m.configErrors)
                    /\ UNCHANGED pc
               ELSE /\ pc' = "vet"
                    /\ log' = log \o Ev(callNo, <<"MergeArgs">>)
                    /\ UNCHANGED <<process, stderr>>
    /\ UNCHANGED <<suiteDidRun, outputInterceptor, client, writerMode, env,
                   callNo, reporter, deferred, runArgs, suiteResult, retval>>
    /\ UNCHANGED notRunVars

\* types.VetConfig and the exit on its violations, which releases nothing
Vet ==
    /\ process = "alive"
    /\ pc = "vet"
    /\ LET errors == VetConfig(suiteConfig, reporterConfig)
       IN IF HasConfigIssues(errors)
          THEN /\ Exit1(callNo, <<"VetConfig">>
                          \o [i \in 1..Len(errors) |-> "Stderr"] \o <<"Exit1">>,
                        errors)
               /\ UNCHANGED pc
          ELSE /\ pc' = "select"
               /\ log' = log \o Ev(callNo, <<"VetConfig">>)
               /\ UNCHANGED <<process, stderr>>
    /\ UNCHANGED <<suiteDidRun, suiteConfig, reporterConfig, outputInterceptor,
                   client, writerMode, env, callNo, args, suiteLabels, reporter,
                   deferred, runArgs, suiteResult, retval>>
    /\ UNCHANGED notRunVars

\* the topology branch: reporter, output interceptor and client
Select ==
    /\ process = "alive"
    /\ pc = "select"
    /\ IF suiteConfig.ParallelTotal = 1
       THEN /\ reporter' = "DefaultReporter"
            /\ outputInterceptor' = "NoopOutputInterceptor"
            /\ client' = "nil"
            /\ pc' = "writer"
            /\ log' = log \o Ev(callNo, <<"NewDefaultReporter">>)
            /\ UNCHANGED <<deferred, process, stderr>>
       ELSE /\ reporter' = "NoopReporter"
            /\ outputInterceptor' =
                   SelectInterceptor(suiteConfig.OutputInterceptorMode)
            /\ \E ok \in BOOLEAN :
                 /\ client' = ClientAfterConnect(ok)
                 /\ IF ok
                    THEN /\ deferred' = TRUE
                         /\ pc' = "writer"
                         /\ log' = log \o Ev(callNo, <<"NewClient", "ConnectOK">>)
                         /\ UNCHANGED <<process, stderr>>
                    ELSE /\ Exit1(callNo, <<"NewClient", "ConnectFailed">>
                                    \o exitIfErr("UnreachableParallelHost",
                                                 outputInterceptor', client'),
                                  <<Err("UnreachableParallelHost")>>)
                         /\ UNCHANGED <<deferred, pc>>
    /\ UNCHANGED <<suiteDidRun, suiteConfig, reporterConfig, writerMode, env,
                   callNo, args, suiteLabels, runArgs, suiteResult, retval>>
    /\ UNCHANGED notRunVars

\* writer.SetMode
SetWriterMode ==
    /\ process = "alive"
    /\ pc = "writer"
    /\ writerMode' = WriterModeFor(reporterConfig, suiteConfig)
    /\ pc' = "build"
    /\ log' = log \o Ev(callNo, <<"SetMode">>)
    /\ UNCHANGED <<suiteDidRun, suiteConfig, reporterConfig, outputInterceptor,
                   client, env, callNo, args, suiteLabels, reporter, deferred,
                   runArgs, process, suiteResult, retval, stderr>>
    /\ UNCHANGED notRunVars

\* global.Suite.BuildTree() and exitIfErr(err)
BuildTree ==
    /\ process = "alive"
    /\ pc = "build"
    /\ \E err \in {"nil", "BuildTreeError"} :
         LET es == exitIfErr(err, outputInterceptor, client)
         IN IF Exits(es)
            THEN /\ Exit1(callNo, <<"BuildTree">> \o es, <<Err(err)>>)
                 /\ UNCHANGED pc
            ELSE /\ pc' = "getwd"
                 /\ log' = log \o Ev(callNo, <<"BuildTree">>)
                 /\ UNCHANGED <<process, stderr>>
    /\ UNCHANGED <<suiteDidRun, suiteConfig, reporterConfig, outputInterceptor,
                   client, writerMode, env, callNo, args, suiteLabels, reporter,
                   deferred, runArgs, suiteResult, retval>>
    /\ UNCHANGED notRunVars

\* os.Getwd(), filepath.Abs() and the exitIfErr(err) after each
Getwd ==
    /\ process = "alive"
    /\ pc = "getwd"
    /\ \E err \in {"nil", "GetwdError", "AbsError"} :
         LET es    == exitIfErr(err, outputInterceptor, client)
             calls == IF err = "GetwdError"
                      THEN <<"Getwd">> ELSE <<"Getwd", "Abs">>
         IN IF Exits(es)
            THEN /\ Exit1(callNo, calls \o es, <<Err(err)>>)
                 /\ UNCHANGED pc
            ELSE /\ pc' = "run"
                 /\ log' = log \o Ev(callNo, calls)
                 /\ UNCHANGED <<process, stderr>>
    /\ UNCHANGED <<suiteDidRun, suiteConfig, reporterConfig, outputInterceptor,
                   client, writerMode, env, callNo, args, suiteLabels, reporter,
                   deferred, runArgs, suiteResult, retval>>
    /\ UNCHANGED notRunVars

\* global.Suite.Run is invoked with the collaborators selected above
SuiteRun ==
    /\ process = "alive"
    /\ pc = "run"
    /\ runArgs' = <<[suiteLabels |-> suiteLabels, reporter |-> reporter,
                    writerMode |-> writerMode,
                    outputInterceptor |-> outputInterceptor,
                    client |-> client, suiteConfig |-> suiteConfig]>>
    /\ pc' = "running"
    /\ log' = log \o Ev(callNo, <<"SuiteRun">>)
    /\ UNCHANGED <<suiteDidRun, suiteConfig, reporterConfig, outputInterceptor,
                   client, writerMode, env, callNo, args, suiteLabels, reporter,
                   deferred, process, suiteResult, retval, stderr>>
    /\ UNCHANGED notRunVars

\* global.Suite.Run returns; the rest of RunSpecs up to its return or exit
SuiteRunReturn ==
    /\ process = "alive"
    /\ pc = "running"
    /\ \E passed \in BOOLEAN, hasFocusedTests \in BOOLEAN, deprecated \in BOOLEAN :
         LET after == <<"Shutdown">>
                      \o (IF deprecated THEN <<"DeprecationsReport">> ELSE <<>>)
                      \o (IF ~passed THEN <<"TFail">> ELSE <<>>)
         IN /\ suiteResult' = <<[passed |-> passed,
                                hasFocusedTests |-> hasFocusedTests]>>
            /\ IF FocusExit(passed, hasFocusedTests, env)
               THEN /\ process' = GINKGO_FOCUS_EXIT_CODE
                    /\ log' = log \o Ev(callNo, after \o <<"ExitFocus">>)
                    /\ UNCHANGED <<pc, retval>>
               ELSE /\ pc' = "returned"
                    /\ retval' = <<passed>>
                    /\ log' = log \o Ev(callNo,
                                 after \o (IF deferred THEN <<"Close">> ELSE <<>>)
                                       \o <<"Return">>)
                    /\ UNCHANGED process
    /\ UNCHANGED <<suiteDidRun, suiteConfig, reporterConfig, outputInterceptor,
                   client, writerMode, env, callNo, args, suiteLabels, reporter,
                   deferred, runArgs, stderr>>
    /\ UNCHANGED notRunVars

RunNext ==
    \/ RunSpecs
    \/ Merge
    \/ Vet
    \/ Select
    \/ SetWriterMode
    \/ BuildTree
    \/ Getwd
    \/ SuiteRun
    \/ SuiteRunReturn

\* ------------------------------------------------------------------------
\* The Failure Signal (global.Failer)
\* ------------------------------------------------------------------------

\* the most goroutines one spec spawns
MaxGoroutines == 2

\* the main path of the spec: the node body the Suite runs
Main == <<"main">>

\* the goroutines the node body may start
Goroutines == {<<"go", i>> : i \in 1..MaxGoroutines}

Tasks == {Main} \cup Goroutines

Messages == {"m1", "m2"}

\* the variadic callerSkip arguments that are tried
CallerSkips == {<<>>, <<1>>}

\* types.GinkgoErrors.UncaughtGinkgoPanic(cl), the payload of the framework
UncaughtGinkgoPanic(cl) == [sentinel |-> TRUE, cl |-> cl]

\* the payload of a panic raised by user code
UserPayload == [sentinel |-> FALSE, cl |-> "none"]

NoFailure == [message |-> "", location |-> "none", forwardedPanic |-> "none"]

\* the Failer after its reset: no failure recorded
FailerReset == [state |-> "Passed", failure |-> NoFailure]

\* Failer.Fail: recorded unless an outcome is already recorded
FailerFail(f, message, location) ==
    IF f.state = "Passed"
    THEN [state |-> "Failed",
          failure |-> [message |-> message, location |-> location,
                       forwardedPanic |-> "none"]]
    ELSE f

\* Failer.Skip: recorded unless an outcome is already recorded
FailerSkip(f, message, location) ==
    IF f.state = "Passed"
    THEN [state |-> "Skipped",
          failure |-> [message |-> message, location |-> location,
                       forwardedPanic |-> "none"]]
    ELSE f

\* Failer.AbortSuite: always recorded, over any earlier outcome
FailerAbortSuite(f, message, location) ==
    [state |-> "Aborted",
     failure |-> [message |-> message, location |-> location,
                  forwardedPanic |-> "none"]]

\* Failer.Panic: recorded with the payload unless an outcome is recorded
FailerPanic(f, location, e) ==
    IF f.state = "Passed"
    THEN [state |-> "Panicked",
          failure |-> [message |-> "Test Panicked", location |-> location,
                       forwardedPanic |-> e]]
    ELSE f

\* skip := 0; if len(callerSkip) > 0 { skip = callerSkip[0] }
SkipOf(callerSkip) == IF Len(callerSkip) > 0 THEN callerSkip[1] ELSE 0

\* a code location that is taken on the main path whoever asks for it
NewCodeLocationOfMain(t, skip) == [task |-> Main, skip |-> skip]

\* types.NewCodeLocationWithStackTrace(skip) called by task t
NewCodeLocation(t, skip) == [task |-> t, skip |-> skip]

SigInit ==
    /\ failer = FailerReset
    /\ task = [t \in Tasks |->
                 IF t = Main
                 THEN [st |-> "running", payload |-> <<>>]
                 ELSE [st |-> "idle", payload |-> <<>>]]
    /\ signalled = <<>>
    /\ outcome = <<>>

\* no spec is running
SigIdle ==
    /\ failer = FailerReset
    /\ task = [t \in Tasks |-> [st |-> "idle", payload |-> <<>>]]
    /\ signalled = <<>>
    /\ outcome = <<>>

\* the node body starts a goroutine that defers GinkgoRecover
Go(g) ==
    /\ task[Main].st = "running"
    /\ task[g].st = "idle"
    /\ task' = [task EXCEPT ![g].st = "running"]
    /\ UNCHANGED <<failer, signalled, outcome>>
    /\ UNCHANGED notSigVars

\* panic(e) in task t: the task stops and unwinds with the payload e
Panics(t, e) == task' = [task EXCEPT ![t] = [st |-> "panicking", payload |-> <<e>>]]

\* Skip that reports to the Failer and returns to its caller
SkipReturns(t, message, callerSkip) ==
    /\ task[t].st = "running"
    /\ LET cl == NewCodeLocation(t, SkipOf(callerSkip) + 1)
       IN /\ failer' = FailerSkip(failer, message, cl)
          /\ signalled' = Append(signalled, [kind |-> "Skip", task |-> t])
    /\ UNCHANGED <<task, outcome>>
    /\ UNCHANGED notSigVars

\* Skip(message, callerSkip...) called by task t
Skip(t, message, callerSkip) ==
    /\ task[t].st = "running"
    /\ LET cl == NewCodeLocation(t, SkipOf(callerSkip) + 1)
       IN /\ failer' = FailerSkip(failer, message, cl)
          /\ signalled' = Append(signalled, [kind |-> "Skip", task |-> t])
          /\ Panics(t, UncaughtGinkgoPanic(cl))
    /\ UNCHANGED outcome
    /\ UNCHANGED notSigVars

\* Fail that panics without reporting to the Failer
FailWithoutRecord(t, message, callerSkip) ==
    /\ task[t].st = "running"
    /\ LET cl == NewCodeLocation(t, SkipOf(callerSkip) + 1)
       IN /\ UNCHANGED failer
          /\ signalled' = Append(signalled, [kind |-> "Fail", task |-> t])
          /\ Panics(t, UncaughtGinkgoPanic(cl))
    /\ UNCHANGED outcome
    /\ UNCHANGED notSigVars

\* Fail(message, callerSkip...) called by task t
Fail(t, message, callerSkip) ==
    /\ task[t].st = "running"
    /\ LET cl == NewCodeLocation(t, SkipOf(callerSkip) + 1)
       IN /\ failer' = FailerFail(failer, message, cl)
          /\ signalled' = Append(signalled, [kind |-> "Fail", task |-> t])
          /\ Panics(t, UncaughtGinkgoPanic(cl))
    /\ UNCHANGED outcome
    /\ UNCHANGED notSigVars

\* AbortSuite reporting through Failer.Fail
AbortSuiteAsFail(t, message, callerSkip) ==
    /\ task[t].st = "running"
    /\ LET cl == NewCodeLocation(t, SkipOf(callerSkip) + 1)
       IN /\ failer' = FailerFail(failer, message, cl)
          /\ signalled' = Append(signalled, [kind |-> "AbortSuite", task |-> t])
          /\ Panics(t, UncaughtGinkgoPanic(cl))
    /\ UNCHANGED outcome
    /\ UNCHANGED notSigVars

\* AbortSuite(message, callerSkip...) called by task t
AbortSuite(t, message, callerSkip) ==
    /\ task[t].st = "running"
    /\ LET cl == NewCodeLocation(t, SkipOf(callerSkip) + 1)
       IN /\ failer' = FailerAbortSuite(failer, message, cl)
          /\ signalled' = Append(signalled, [kind |-> "AbortSuite", task |-> t])
          /\ Panics(t, UncaughtGinkgoPanic(cl))
    /\ UNCHANGED outcome
    /\ UNCHANGED notSigVars

\* user code of task t panics with a payload of its own
UserPanic(t) ==
    /\ task[t].st = "running"
    /\ Panics(t, UserPayload)
    /\ UNCHANGED <<failer, signalled, outcome>>
    /\ UNCHANGED notSigVars

\* the function of task t returns without a panic
Return(t) ==
    /\ task[t].st = "running"
    /\ task' = [task EXCEPT ![t].st = "returning"]
    /\ UNCHANGED <<failer, signalled, outcome>>
    /\ UNCHANGED notSigVars

\* GinkgoRecover that forwards only the panics the framework raised
GinkgoRecoverOwnPanicsOnly(g) ==
    /\ g \in Goroutines
    /\ task[g].st \in {"panicking", "returning"}
    /\ LET e == task[g].payload
       IN IF e # <<>> /\ e[1].sentinel
          THEN /\ failer' = FailerPanic(failer, NewCodeLocation(g, 1), e[1])
               /\ signalled' = Append(signalled, [kind |-> "Panic", task |-> g])
          ELSE UNCHANGED <<failer, signalled>>
    /\ task' = [task EXCEPT ![g] = [st |-> "done", payload |-> <<>>]]
    /\ UNCHANGED outcome
    /\ UNCHANGED notSigVars

\* the deferred GinkgoRecover of goroutine g runs: e := recover()
GinkgoRecover(g) ==
    /\ g \in Goroutines
    /\ task[g].st \in {"panicking", "returning"}
    /\ LET e == task[g].payload
       IN IF e # <<>>
          THEN /\ failer' = FailerPanic(failer, NewCodeLocation(g, 1), e[1])
               /\ signalled' = Append(signalled, [kind |-> "Panic", task |-> g])
          ELSE UNCHANGED <<failer, signalled>>
    /\ task' = [task EXCEPT ![g] = [st |-> "done", payload |-> <<>>]]
    /\ UNCHANGED outcome
    /\ UNCHANGED notSigVars

\* the Suite's node boundary ends the main path: the framework's payload is
\* dropped, any other payload is reported as a panic
NodeBoundary ==
    /\ task[Main].st \in {"panicking", "returning"}
    /\ LET e == task[Main].payload
       IN IF e # <<>> /\ ~e[1].sentinel
          THEN /\ failer' = FailerPanic(failer, NewCodeLocation(Main, 2), e[1])
               /\ signalled' = Append(signalled, [kind |-> "Panic", task |-> Main])
          ELSE UNCHANGED <<failer, signalled>>
    /\ task' = [task EXCEPT ![Main] = [st |-> "done", payload |-> <<>>]]
    /\ UNCHANGED outcome
    /\ UNCHANGED notSigVars

\* the Suite reads the Failer once the spec and its goroutines are over
ReadOutcome ==
    /\ outcome = <<>>
    /\ \A t \in Tasks : task[t].st \in {"idle", "done"}
    /\ outcome' = <<failer.state>>
    /\ UNCHANGED <<failer, task, signalled>>
    /\ UNCHANGED notSigVars

SigNext ==
    \/ \E g \in Goroutines : Go(g)
    \/ \E t \in Tasks, m \in Messages, cs \in CallerSkips : Skip(t, m, cs)
    \/ \E t \in Tasks, m \in Messages, cs \in CallerSkips : Fail(t, m, cs)
    \/ \E t \in Tasks, m \in Messages, cs \in CallerSkips : AbortSuite(t, m, cs)
    \/ \E t \in Tasks : UserPanic(t)
    \/ \E t \in Tasks : Return(t)
    \/ \E g \in Goroutines : GinkgoRecover(g)
    \/ NodeBoundary
    \/ ReadOutcome

\* ------------------------------------------------------------------------
\* Declaring nodes: Describe, It and their variants, DeferCleanup
\* ------------------------------------------------------------------------

\* the most nodes one tree holds
MaxNodes == 3

\* the most decorators the caller passes to one declaration
MaxDecorators == 1

\* internal.Focus and internal.Pending
Decorators == {"Focus", "Pending"}

\* the args of a declaration, but for the body
DecoratorLists == UNION {[1..n -> Decorators] : n \in 0..MaxDecorators}

Texts == {"t"}

\* x occurs in the sequence s
In(x, s) == \E i \in DOMAIN s : s[i] = x

\* internal.NewNode: the node and the errors of its arguments
NewNode(nodeType, text, as) ==
    [node   |-> [type |-> nodeType, text |-> text,
                 focus |-> In("Focus", as), pending |-> In("Pending", as)],
     errors |-> IF In("Focus", as) /\ In("Pending", as)
                THEN <<[err |-> "InvalidDeclarationOfFocusedAndPending",
                        arg |-> "none"]>>
                ELSE <<>>]

Describe(text, as) == NewNode("Container", text, as)

\* FDescribe that does not append internal.Focus
FDescribeWithoutFocus(text, as) == NewNode("Container", text, as)

FDescribe(text, as) == NewNode("Container", text, Append(as, "Focus"))

PDescribe(text, as) == NewNode("Container", text, Append(as, "Pending"))

\* var XDescribe = PDescribe
XDescribe(text, as) == PDescribe(text, as)

It(text, as) == NewNode("It", text, as)

\* FIt that does not append internal.Focus
FItWithoutFocus(text, as) == NewNode("It", text, as)

FIt(text, as) == NewNode("It", text, Append(as, "Focus"))

\* PIt that does not append internal.Pending
PItWithoutPending(text, as) == NewNode("It", text, as)

PIt(text, as) == NewNode("It", text, Append(as, "Pending"))

\* var XIt = PIt
XIt(text, as) == PIt(text, as)

\* var Context, FContext, PContext, XContext = Describe, FDescribe, ...
Context(text, as) == Describe(text, as)

FContext(text, as) == FDescribe(text, as)

PContext(text, as) == PDescribe(text, as)

XContext(text, as) == XDescribe(text, as)

\* var When, FWhen, PWhen, XWhen = Describe, FDescribe, PDescribe, XDescribe
When(text, as) == Describe(text, as)

FWhen(text, as) == FDescribe(text, as)

PWhen(text, as) == PDescribe(text, as)

XWhen(text, as) == XDescribe(text, as)

\* var Specify, FSpecify, PSpecify, XSpecify = It, FIt, PIt, XIt
Specify(text, as) == It(text, as)

FSpecify(text, as) == FIt(text, as)

PSpecify(text, as) == PIt(text, as)

XSpecify(text, as) == XIt(text, as)

ContainerCalls == {"Describe", "FDescribe", "PDescribe", "XDescribe"}

SubjectCalls == {"It", "FIt", "PIt", "XIt"}

\* the other names the same functions are exported under
ContainerAliases == {"Context", "FContext", "PContext", "XContext",
                     "When", "FWhen", "PWhen", "XWhen"}

SubjectAliases == {"Specify", "FSpecify", "PSpecify", "XSpecify"}

\* the call of the declaration named fn
Declaration(fn, text, as) ==
    CASE fn = "Describe"  -> Describe(text, as)
      [] fn = "FDescribe" -> FDescribe(text, as)
      [] fn = "PDescribe" -> PDescribe(text, as)
      [] fn = "XDescribe" -> XDescribe(text, as)
      [] fn = "It"        -> It(text, as)
      [] fn = "FIt"       -> FIt(text, as)
      [] fn = "PIt"       -> PIt(text, as)
      [] fn = "XIt"       -> XIt(text, as)
      [] fn = "Context"   -> Context(text, as)
      [] fn = "FContext"  -> FContext(text, as)
      [] fn = "PContext"  -> PContext(text, as)
      [] fn = "XContext"  -> XContext(text, as)
      [] fn = "When"      -> When(text, as)
      [] fn = "FWhen"     -> FWhen(text, as)
      [] fn = "PWhen"     -> PWhen(text, as)
      [] fn = "XWhen"     -> XWhen(text, as)
      [] fn = "Specify"   -> Specify(text, as)
      [] fn = "FSpecify"  -> FSpecify(text, as)
      [] fn = "PSpecify"  -> PSpecify(text, as)
      [] fn = "XSpecify"  -> XSpecify(text, as)

\* internal.NewCleanupNode: a node of type Cleanup around the callback
NewCleanupNode ==
    [node   |-> [type |-> "Cleanup", text |-> "", focus |-> FALSE,
                 pending |-> FALSE],
     errors |-> <<>>]

\* Suite.PushNode: the error it returns, "nil" when the node is accepted;
\* running is whether a Setup or Subject node is being executed
SuitePushNode(node, running) ==
    IF node.type = "Cleanup"
    THEN IF running THEN "nil" ELSE "PushingCleanupNodeDuringTreeConstruction"
    ELSE IF running THEN "PushingNodeInRunPhase" ELSE "nil"

\* pushNode that drops the error of Suite.PushNode
pushNodeIgnoresPushError(node, errors, running, oi, cl) ==
    exitIfErrors(errors, oi, cl)

\* pushNode(node, errors): the calls exitIfErrors and exitIfErr make, <<>>
\* when pushNode returns true
pushNode(node, errors, running, oi, cl) ==
    LET es == exitIfErrors(errors, oi, cl)
    IN IF Exits(es)
       THEN es
       ELSE exitIfErr(SuitePushNode(node, running), oi, cl)

\* what pushNode prints before the process exits
pushNodeErrors(node, errors, running) ==
    IF Len(errors) > 0
    THEN errors
    ELSE <<Err(SuitePushNode(node, running))>>

\* the container whose body is being run, 0 at the top level
Cursor == IF open = <<>> THEN 0 ELSE open[Len(open)]

\* the states of the process in which declarations are made: at package
\* initialisation, and in BuildTree in a run alone or in a parallel run
TreeContexts ==
    { [pc |-> "idle",  oi |-> "nil", cl |-> "nil", total |-> 1],
      [pc |-> "build", oi |-> "NoopOutputInterceptor", cl |-> "nil", total |-> 1],
      [pc |-> "build", oi |-> "OutputInterceptor", cl |-> "connected", total |-> 2] }

\* no node was declared
TreeIdle ==
    /\ nodes = <<>>
    /\ open = <<>>
    /\ phase = "declaring"
    /\ treeResult = <<>>

TreeInit ==
    /\ TreeIdle
    /\ \E c \in TreeContexts :
         /\ pc = c.pc
         /\ outputInterceptor = c.oi
         /\ client = c.cl
         /\ suiteConfig = [DefaultSuiteConfig EXCEPT !.ParallelTotal = c.total]
         /\ suiteDidRun = (c.pc = "build")
         /\ callNo = (IF c.pc = "build" THEN 1 ELSE 0)
         /\ reporter = (IF c.pc = "idle" THEN "nil"
                        ELSE IF c.total = 1 THEN "DefaultReporter"
                        ELSE "NoopReporter")
         /\ deferred = (c.cl = "connected")
         /\ writerMode = (IF c.pc = "build" THEN "WriterModeBufferOnly"
                          ELSE "initial")
    /\ reporterConfig = DefaultReporterConfig
    /\ env = <<>>
    /\ args = <<>>
    /\ suiteLabels = <<>>
    /\ runArgs = <<>>
    /\ process = "alive"
    /\ suiteResult = <<>>
    /\ retval = <<>>
    /\ stderr = <<>>
    /\ log = <<>>

\* a declaration is made: in a container body only while BuildTree runs it
MayDeclare ==
    /\ process = "alive"
    /\ phase = "declaring"
    /\ open # <<>> => pc = "build"

\* the node as the suite keeps it, with what its declaration asked for: by
\* the name of the call or by a decorator among its arguments
Pushed(fn, as, node) ==
    [type |-> node.type, text |-> node.text, focus |-> node.focus,
     pending |-> node.pending, parent |-> Cursor,
     askedFocus |-> (fn \in {"FDescribe", "FIt", "FContext", "FWhen",
                             "FSpecify"} \/ In("Focus", as)),
     askedPending |-> (fn \in {"PDescribe", "XDescribe", "PIt", "XIt",
                               "PContext", "XContext", "PWhen", "XWhen",
                               "PSpecify", "XSpecify"}
                       \/ In("Pending", as))]

\* a declaration call pushes its node or ends the process; a container's
\* body is run, which makes it the cursor
Declare(fn, text, as) ==
    /\ MayDeclare
    /\ Len(nodes) < MaxNodes
    /\ LET r  == Declaration(fn, text, as)
           es == pushNode(r.node, r.errors, FALSE, outputInterceptor, client)
       IN IF Exits(es)
          THEN /\ Exit1(callNo, <<fn>> \o es,
                        pushNodeErrors(r.node, r.errors, FALSE))
               /\ UNCHANGED <<nodes, open>>
          ELSE /\ nodes' = Append(nodes, Pushed(fn, as, r.node))
               /\ open' = IF fn \in ContainerCalls
                          THEN Append(open, Len(nodes) + 1)
                          ELSE open
               /\ UNCHANGED <<process, stderr, log>>
    /\ UNCHANGED <<phase, treeResult, runRest, notTreeVars>>

\* the body of the innermost open container returns
LeaveBody ==
    /\ process = "alive"
    /\ phase = "declaring"
    /\ open # <<>>
    /\ open' = SubSeq(open, 1, Len(open) - 1)
    /\ UNCHANGED <<nodes, phase, treeResult, runVars, notTreeVars>>

\* DeferCleanup is called while no Setup or Subject node is executing: at
\* the top level or in a container body
DeferCleanupDeclaring ==
    /\ MayDeclare
    /\ LET r  == NewCleanupNode
           es == pushNode(r.node, r.errors, FALSE, outputInterceptor, client)
       IN IF Exits(es)
          THEN /\ Exit1(callNo, <<"DeferCleanup">> \o es,
                        pushNodeErrors(r.node, r.errors, FALSE))
               /\ UNCHANGED nodes
          ELSE /\ nodes' = Append(nodes, Pushed("DeferCleanup", <<>>, r.node))
               /\ UNCHANGED <<process, stderr, log>>
    /\ UNCHANGED <<open, phase, treeResult, runRest, notTreeVars>>

\* ------------------------------------------------------------------------
\* Focus and Pending when the tree is run
\* ------------------------------------------------------------------------

\* the containers around node i, innermost first
RECURSIVE Ancestors(_, _)
Ancestors(ns, i) ==
    IF ns[i].parent = 0
    THEN {}
    ELSE {ns[i].parent} \cup Ancestors(ns, ns[i].parent)

Subjects(ns) == {i \in DOMAIN ns : ns[i].type = "It"}

\* node i or a container around it carries Pending
EffectivelyPending(ns, i) ==
    \E j \in {i} \cup Ancestors(ns, i) : ns[j].pending

\* node i or a container around it carries Focus, and no container around
\* it carries Pending
EffectivelyFocused(ns, i) ==
    /\ \E j \in {i} \cup Ancestors(ns, i) : ns[j].focus
    /\ \A j \in Ancestors(ns, i) : ~ns[j].pending

\* whether any Subject of the tree is effectively focused
HasFocusedTests(ns) == \E i \in Subjects(ns) : EffectivelyFocused(ns, i)

\* the Subjects that are executed
Executed(ns) ==
    {i \in Subjects(ns) :
        /\ ~EffectivelyPending(ns, i)
        /\ HasFocusedTests(ns) => EffectivelyFocused(ns, i)}

\* Suite.Run on the tree, every body passing
RunTree ==
    /\ process = "alive"
    /\ phase = "declaring"
    /\ pc = "build"
    /\ open = <<>>
    /\ phase' = "ran"
    /\ treeResult' = <<[executed |-> Executed(nodes),
                        skipped  |-> Subjects(nodes) \ Executed(nodes),
                        passed   |-> TRUE,
                        hasFocusedTests |-> HasFocusedTests(nodes)]>>
    /\ UNCHANGED <<nodes, open, runVars, notTreeVars>>

\* one declaration call under any of its names, put on record with its
\* arguments: it pushes its node or ends the process
Register(fn, text, as) ==
    /\ MayDeclare
    /\ called = <<>>
    /\ LET r  == Declaration(fn, text, as)
           es == pushNode(r.node, r.errors, FALSE, outputInterceptor, client)
       IN IF Exits(es)
          THEN /\ Exit1(callNo, <<fn>> \o es,
                        pushNodeErrors(r.node, r.errors, FALSE))
               /\ UNCHANGED <<nodes, open>>
          ELSE /\ nodes' = Append(nodes, Pushed(fn, as, r.node))
               /\ open' = IF fn \in ContainerCalls \cup ContainerAliases
                          THEN Append(open, Len(nodes) + 1)
                          ELSE open
               /\ UNCHANGED <<process, stderr, log>>
    /\ called' = <<[fn |-> fn, text |-> text, args |-> as]>>
    /\ UNCHANGED <<phase, treeResult, runRest, sigVars, suiteVars, parVars>>

CallNext ==
    \E fn \in ContainerCalls \cup SubjectCalls \cup ContainerAliases
                \cup SubjectAliases,
       text \in Texts, as \in DecoratorLists : Register(fn, text, as)

TreeNext ==
    \/ \E fn \in ContainerCalls \cup SubjectCalls, text \in Texts,
          as \in DecoratorLists : Declare(fn, text, as)
    \/ LeaveBody
    \/ DeferCleanupDeclaring
    \/ RunTree

\* ------------------------------------------------------------------------
\* The run of the nodes: AbortSuite and DeferCleanup in a node body
\* ------------------------------------------------------------------------

\* the specs of the suite that is run
MaxSpecs == 2

\* the most calls of DeferCleanup in one run
MaxCleanups == 2

\* the most node bodies of one run that call Fail or AbortSuite
MaxSignals == 1

\* the nodes of spec s: its hooks around its Subject, in an Ordered
\* container the BeforeAll before the first and the AfterAll after the last
SpecNodes(s, ordered, just) ==
    (IF ordered /\ s = 1 THEN <<[role |-> "BeforeAll", spec |-> s]>> ELSE <<>>)
    \o <<[role |-> IF just THEN "JustBeforeEach" ELSE "BeforeEach", spec |-> s],
         [role |-> "It", spec |-> s],
         [role |-> IF just THEN "JustAfterEach" ELSE "AfterEach", spec |-> s]>>
    \o (IF ordered /\ s = MaxSpecs
        THEN <<[role |-> "AfterAll", spec |-> s]>> ELSE <<>>)

RECURSIVE SpecsFrom(_, _, _)
SpecsFrom(s, ordered, just) ==
    IF s > MaxSpecs
    THEN <<>>
    ELSE SpecNodes(s, ordered, just) \o SpecsFrom(s + 1, ordered, just)

\* the suites that are run: the specs between the nodes of the suite, in an
\* Ordered container or with the Synchronized nodes and the Just hooks
PlanOf(ordered, sync) ==
    <<[role |-> IF sync THEN "SynchronizedBeforeSuite" ELSE "BeforeSuite",
       spec |-> 0]>>
    \o SpecsFrom(1, ordered, sync)
    \o <<[role |-> IF sync THEN "SynchronizedAfterSuite" ELSE "AfterSuite",
          spec |-> 0]>>

Plans == {PlanOf(ordered, ~ordered) : ordered \in BOOLEAN}

SuiteRoles == {"BeforeSuite", "SynchronizedBeforeSuite", "AfterSuite",
               "SynchronizedAfterSuite"}

\* a scope that is the spec whatever the role
CleanupScopeOfSpec(role) == "spec"

\* the scope of a cleanup registered while a node of this role executes
CleanupScope(role) ==
    IF role \in {"BeforeAll", "AfterAll"} THEN "container"
    ELSE IF role \in SuiteRoles THEN "suite"
    ELSE "spec"

\* no suite is run
SuiteIdle ==
    /\ plan = <<>>
    /\ at = 1
    /\ specState = <<>>
    /\ skipRest = FALSE
    /\ cleanups = <<>>
    /\ deferCalls = <<>>
    /\ trace = <<>>
    /\ runPassed = <<>>

\* Suite.Run begins, in a run of one process
SuiteInit ==
    /\ plan \in Plans
    /\ at = 1
    /\ specState = [s \in 1..MaxSpecs |-> "NotRun"]
    /\ skipRest = FALSE
    /\ cleanups = <<>>
    /\ deferCalls = <<>>
    /\ trace = <<>>
    /\ runPassed = <<>>
    /\ SigIdle
    /\ TreeIdle
    /\ pc = "running"
    /\ outputInterceptor = "NoopOutputInterceptor"
    /\ client = "nil"
    /\ suiteConfig = DefaultSuiteConfig
    /\ reporterConfig = DefaultReporterConfig
    /\ suiteDidRun = TRUE
    /\ callNo = 1
    /\ reporter = "DefaultReporter"
    /\ deferred = FALSE
    /\ writerMode = "WriterModeBufferOnly"
    /\ env = <<>>
    /\ args = <<>>
    /\ suiteLabels = <<>>
    /\ runArgs = <<>>
    /\ process = "alive"
    /\ suiteResult = <<>>
    /\ retval = <<>>
    /\ stderr = <<>>
    /\ log = <<>>

\* the node at place i is the last of its spec
LastOfSpec(i) ==
    /\ plan[i].spec # 0
    /\ \A k \in DOMAIN plan : plan[k].spec = plan[i].spec => k <= i

\* the scopes that close once the node at place i is over, innermost first
Closing(i) ==
    (IF LastOfSpec(i) THEN <<[scope |-> "spec", spec |-> plan[i].spec]>> ELSE <<>>)
    \o (IF plan[i].role = "AfterAll"
           \/ (LastOfSpec(i) /\ plan[i].spec = MaxSpecs)
        THEN <<[scope |-> "container", spec |-> 0]>> ELSE <<>>)
    \o (IF i = Len(plan) THEN <<[scope |-> "suite", spec |-> 0]>> ELSE <<>>)

\* cleanup c belongs to the scope sc
Owns(sc, c) ==
    /\ c.scope = sc.scope
    /\ sc.scope = "spec" => c.spec = sc.spec

RECURSIVE Reverse(_)
Reverse(s) == IF s = <<>> THEN <<>> ELSE Reverse(Tail(s)) \o <<s[1]>>

\* the cleanups of cs that scope sc owns, oldest first
RECURSIVE Owned(_, _)
Owned(sc, cs) ==
    IF cs = <<>> THEN <<>>
    ELSE (IF Owns(sc, cs[1]) THEN <<cs[1]>> ELSE <<>>) \o Owned(sc, Tail(cs))

\* the cleanups of cs that none of the scopes scs owns
RECURSIVE Kept(_, _)
Kept(scs, cs) ==
    IF cs = <<>> THEN <<>>
    ELSE (IF \E k \in DOMAIN scs : Owns(scs[k], cs[1]) THEN <<>> ELSE <<cs[1]>>)
         \o Kept(scs, Tail(cs))

\* the cleanups invoked as the scopes scs close: scope after scope, in each
\* the last registered first
RECURSIVE Invoked(_, _)
Invoked(scs, cs) ==
    IF scs = <<>> THEN <<>>
    ELSE Reverse(Owned(scs[1], cs)) \o Invoked(Tail(scs), cs)

\* the entry of the trace for the cleanup c, invoked once the node at place
\* i was over
Cleaned(c, i) == [what |-> "cleanup", id |-> c.id, role |-> "Cleanup",
                  spec |-> c.spec, state |-> "Passed", aborts |-> FALSE,
                  after |-> i]

RECURSIVE CleanedAll(_, _)
CleanedAll(cs, i) ==
    IF cs = <<>> THEN <<>>
    ELSE <<Cleaned(cs[1], i)>> \o CleanedAll(Tail(cs), i)

\* whether the Suite executes the node at place i: the nodes after the specs
\* always, the hooks after the Subject when their spec began, the others
\* while nothing failed in their spec and the suite was not told to stop
Executes(i) ==
    LET n == plan[i]
    IN CASE n.role \in {"AfterSuite", "SynchronizedAfterSuite", "AfterAll"} -> TRUE
         [] n.role \in {"BeforeSuite", "SynchronizedBeforeSuite"} -> TRUE
         [] n.role \in {"AfterEach", "JustAfterEach"} ->
                specState[n.spec] # "NotRun"
         [] OTHER ->
                /\ ~skipRest
                /\ specState[n.spec] \in {"NotRun", "Passed"}

\* the Suite is over once the last node is: the run passed when no spec
\* failed and no node outside the specs did
Finish(i, tr) ==
    IF i = Len(plan)
    THEN <<\A k \in DOMAIN tr : tr[k].state \in {"Passed", "Skipped"}>>
    ELSE <<>>

\* the Suite starts the body of the next node, the Failer reset
StartNode ==
    /\ process = "alive"
    /\ at <= Len(plan)
    /\ task[Main].st \in {"idle", "done"}
    /\ Executes(at)
    /\ task' = [task EXCEPT ![Main] = [st |-> "running", payload |-> <<>>]]
    /\ failer' = FailerReset
    /\ signalled' = <<>>
    /\ specState' = IF plan[at].spec # 0 /\ specState[plan[at].spec] = "NotRun"
                    THEN [specState EXCEPT ![plan[at].spec] = "Passed"]
                    ELSE specState
    /\ UNCHANGED <<plan, at, skipRest, cleanups, deferCalls, trace, runPassed, outcome>>
    /\ UNCHANGED notSuiteVars

\* the Suite passes over a node it does not execute
SkipNode ==
    /\ process = "alive"
    /\ at <= Len(plan)
    /\ task[Main].st \in {"idle", "done"}
    /\ ~Executes(at)
    /\ LET scs == Closing(at)
           tr  == trace \o CleanedAll(Invoked(scs, cleanups), at)
       IN /\ trace' = tr
          /\ cleanups' = Kept(scs, cleanups)
          /\ runPassed' = Finish(at, tr)
    /\ specState' = IF LastOfSpec(at) /\ specState[plan[at].spec] = "NotRun"
                    THEN [specState EXCEPT ![plan[at].spec] = "Skipped"]
                    ELSE specState
    /\ at' = at + 1
    /\ UNCHANGED <<plan, skipRest, deferCalls, sigVars>>
    /\ UNCHANGED notSuiteVars

\* what the Suite records for a spec when one of its nodes ends in state st
Recorded(old, st) ==
    IF st = "Aborted" THEN "Aborted"
    ELSE IF old \in {"NotRun", "Passed"} THEN st
    ELSE old

\* the body of the node is over: the Suite reads the Failer, records the
\* state of the spec and invokes the cleanups of the scopes that close
EndNode ==
    /\ process = "alive"
    /\ at <= Len(plan)
    /\ task[Main].st \in {"panicking", "returning"}
    /\ LET e   == task[Main].payload
           f   == IF e # <<>> /\ ~e[1].sentinel
                  THEN FailerPanic(failer, NewCodeLocation(Main, 2), e[1])
                  ELSE failer
           n   == plan[at]
           scs == Closing(at)
           tr  == trace
                  \o <<[what |-> "node", id |-> at, role |-> n.role,
                        spec |-> n.spec, state |-> f.state,
                        aborts |-> \E k \in DOMAIN signalled :
                                      signalled[k].kind = "AbortSuite",
                        after |-> at]>>
                  \o CleanedAll(Invoked(scs, cleanups), at)
       IN /\ failer' = f
          /\ trace' = tr
          /\ cleanups' = Kept(scs, cleanups)
          /\ specState' = IF n.spec # 0
                          THEN [specState EXCEPT
                                  ![n.spec] = Recorded(specState[n.spec], f.state)]
                          ELSE specState
          /\ skipRest' = (skipRest \/ f.state = "Aborted"
                          \/ (n.role \in {"BeforeSuite", "SynchronizedBeforeSuite"}
                              /\ f.state # "Passed"))
          /\ runPassed' = Finish(at, tr)
    /\ task' = [task EXCEPT ![Main] = [st |-> "done", payload |-> <<>>]]
    /\ at' = at + 1
    /\ UNCHANGED <<plan, deferCalls, signalled, outcome>>
    /\ UNCHANGED notSuiteVars

\* DeferCleanup that pushes its node twice
DeferCleanupTwice ==
    /\ process = "alive"
    /\ task[Main].st = "running"
    /\ Len(deferCalls) < MaxCleanups
    /\ deferCalls' = Append(deferCalls, [id |-> Len(deferCalls) + 1, role |-> plan[at].role,
                               spec |-> plan[at].spec, at |-> at])
    /\ LET c == [id |-> Len(deferCalls) + 1,
                 scope |-> CleanupScope(plan[at].role),
                 spec |-> plan[at].spec]
       IN cleanups' = cleanups \o <<c, c>>
    /\ UNCHANGED <<process, stderr, log>>
    /\ UNCHANGED <<plan, at, specState, skipRest, trace, runPassed>>
    /\ UNCHANGED <<runRest, sigVars, treeVars, parVars, callVars>>

\* DeferCleanup(args...) called in the body of the node that executes: the
\* Suite takes the cleanup node for the scope of that node's role
DeferCleanup ==
    /\ process = "alive"
    /\ task[Main].st = "running"
    /\ Len(deferCalls) < MaxCleanups
    /\ deferCalls' = Append(deferCalls, [id |-> Len(deferCalls) + 1, role |-> plan[at].role,
                               spec |-> plan[at].spec, at |-> at])
    /\ LET r  == NewCleanupNode
           es == pushNode(r.node, r.errors, TRUE, outputInterceptor, client)
       IN IF Exits(es)
          THEN /\ Exit1(callNo, <<"DeferCleanup">> \o es,
                        pushNodeErrors(r.node, r.errors, TRUE))
               /\ UNCHANGED cleanups
          ELSE /\ cleanups' = Append(cleanups,
                                 [id |-> Len(deferCalls) + 1,
                                  scope |-> CleanupScope(plan[at].role),
                                  spec |-> plan[at].spec])
               /\ UNCHANGED <<process, stderr, log>>
    /\ UNCHANGED <<plan, at, specState, skipRest, trace, runPassed>>
    /\ UNCHANGED <<runRest, sigVars, treeVars, parVars, callVars>>

\* the node bodies that called Fail or AbortSuite are fewer than MaxSignals
MaySignal ==
    Cardinality({k \in DOMAIN trace : trace[k].state # "Passed"}) < MaxSignals

\* the body of the node calls Fail
NodeFails == MaySignal /\ Fail(Main, "m1", <<>>)

\* the body of the node calls AbortSuite
NodeAborts == MaySignal /\ AbortSuite(Main, "m1", <<>>)

\* Skip that ends the process instead of unwinding the node body
NodeSkipsAndExits ==
    /\ MaySignal
    /\ task[Main].st = "running"
    /\ failer' = FailerSkip(failer, "m1", NewCodeLocation(Main, 1))
    /\ signalled' = Append(signalled, [kind |-> "Skip", task |-> Main])
    /\ process' = "exit(1)"
    /\ UNCHANGED <<task, outcome, stderr, log, runRest>>
    /\ UNCHANGED <<treeVars, suiteVars, parVars, callVars>>

\* the body of the node calls Skip
NodeSkips == MaySignal /\ Skip(Main, "m1", <<>>)

\* the body of the node panics with a payload of user code
NodePanics == MaySignal /\ UserPanic(Main)

SuiteNext ==
    \/ StartNode
    \/ SkipNode
    \/ EndNode
    \/ DeferCleanup
    \/ NodeFails
    \/ NodeAborts
    \/ Return(Main)

\* the nodes run with each way a body can end, no cleanup registered
SiblingNext ==
    \/ StartNode
    \/ SkipNode
    \/ EndNode
    \/ NodeFails
    \/ NodeSkips
    \/ NodePanics
    \/ NodeAborts
    \/ Return(Main)

\* ------------------------------------------------------------------------
\* SynchronizedBeforeSuite and SynchronizedAfterSuite across processes
\* ------------------------------------------------------------------------

\* the most parallel processes of one run
MaxProcs == 3

\* the byte slices the first function of SynchronizedBeforeSuite returns
Payloads == {"d1", "d2"}

\* SynchronizedBeforeSuite with its two functions exchanged
SynchronizedBeforeSuiteSwapped(first, second) ==
    [type |-> "SynchronizedBeforeSuite",
     process1Body |-> second, allProcessBody |-> first]

\* SynchronizedBeforeSuite(process1Body, allProcessBody): the node pushed
SynchronizedBeforeSuite(first, second) ==
    [type |-> "SynchronizedBeforeSuite",
     process1Body |-> first, allProcessBody |-> second]

\* SynchronizedAfterSuite with its two functions exchanged
SynchronizedAfterSuiteSwapped(first, second) ==
    [type |-> "SynchronizedAfterSuite",
     allProcessBody |-> second, process1Body |-> first]

\* SynchronizedAfterSuite(allProcessBody, process1Body): the node pushed
SynchronizedAfterSuite(first, second) ==
    [type |-> "SynchronizedAfterSuite",
     allProcessBody |-> first, process1Body |-> second]

\* the suite declares both nodes, naming each function by its place in the
\* call
BeforeNode == SynchronizedBeforeSuite("before.first", "before.second")

AfterNode == SynchronizedAfterSuite("after.first", "after.second")

Procs == 1..total

\* no parallel run is followed
ParIdle ==
    /\ total = 1
    /\ where = <<>>
    /\ barrier = [state |-> "pending", data |-> <<>>]
    /\ ranFns = <<>>

ParInit ==
    /\ total \in 1..MaxProcs
    /\ where = [p \in 1..total |-> "start"]
    /\ barrier = [state |-> "pending", data |-> <<>>]
    /\ ranFns = <<>>

\* the function fn has run on process p: with or returning data, ok or not
Ran(fn, p, data, ok) ==
    Append(ranFns, [fn |-> fn, proc |-> p, data |-> data, ok |-> ok])

\* process #1 runs process1Body, which returns d or fails, and publishes
\* the outcome
Process1Body(d, ok) ==
    /\ where[1] = "start"
    /\ ranFns' = Ran(BeforeNode.process1Body, 1, IF ok THEN <<d>> ELSE <<>>, ok)
    /\ barrier' = IF ok THEN [state |-> "passed", data |-> <<d>>]
                  ELSE [state |-> "failed", data |-> <<>>]
    /\ where' = [where EXCEPT ![1] = IF ok THEN "ready" ELSE "after"]
    /\ UNCHANGED total
    /\ UNCHANGED notParVars

\* process p runs allProcessBody on the data process #1 published
AllProcessBody(p) ==
    /\ p \in Procs
    /\ where[p] = (IF p = 1 THEN "ready" ELSE "start")
    /\ barrier.state = "passed"
    /\ ranFns' = Ran(BeforeNode.allProcessBody, p, barrier.data, TRUE)
    /\ where' = [where EXCEPT ![p] = "specs"]
    /\ UNCHANGED <<total, barrier>>
    /\ UNCHANGED notParVars

\* process p learns that process1Body failed on process #1: it runs no spec
Process1Failed(p) ==
    /\ p \in Procs \ {1}
    /\ where[p] = "start"
    /\ barrier.state = "failed"
    /\ where' = [where EXCEPT ![p] = "after"]
    /\ UNCHANGED <<total, barrier, ranFns>>
    /\ UNCHANGED notParVars

\* process p has run its share of the specs
SpecsDone(p) ==
    /\ p \in Procs
    /\ where[p] = "specs"
    /\ where' = [where EXCEPT ![p] = "after"]
    /\ UNCHANGED <<total, barrier, ranFns>>
    /\ UNCHANGED notParVars

\* process p runs the allProcessBody of SynchronizedAfterSuite; a process
\* other than #1 then finishes and exits
AfterAllProcessBody(p) ==
    /\ p \in Procs
    /\ where[p] = "after"
    /\ ranFns' = Ran(AfterNode.allProcessBody, p, <<>>, TRUE)
    /\ where' = [where EXCEPT ![p] = IF p = 1 THEN "waiting" ELSE "exited"]
    /\ UNCHANGED <<total, barrier>>
    /\ UNCHANGED notParVars

\* process #1 runs the process1Body of SynchronizedAfterSuite once the other
\* processes have exited
AfterProcess1Body ==
    /\ where[1] = "waiting"
    /\ \A q \in Procs \ {1} : where[q] = "exited"
    /\ ranFns' = Ran(AfterNode.process1Body, 1, <<>>, TRUE)
    /\ where' = [where EXCEPT ![1] = "exited"]
    /\ UNCHANGED <<total, barrier>>
    /\ UNCHANGED notParVars

ParNext ==
    \/ \E d \in Payloads, ok \in BOOLEAN : Process1Body(d, ok)
    \/ \E p \in 1..MaxProcs : AllProcessBody(p)
    \/ \E p \in 1..MaxProcs : Process1Failed(p)
    \/ \E p \in 1..MaxProcs : SpecsDone(p)
    \/ \E p \in 1..MaxProcs : AfterAllProcessBody(p)
    \/ AfterProcess1Body

\* ------------------------------------------------------------------------
\* Specifications
\* ------------------------------------------------------------------------

\* RunSpecs was not called
RunIdle == RunInit /\ env = <<>>

\* no declaration call is on record
NoCall == called = <<>>

Init == RunInit /\ SigIdle /\ TreeIdle /\ SuiteIdle /\ ParIdle /\ NoCall

Next == RunNext

\* the calls of RunSpecs in one process
Spec == Init /\ [][Next]_vars

SignalInit == SigInit /\ RunIdle /\ TreeIdle /\ SuiteIdle /\ ParIdle /\ NoCall

SignalNext == SigNext

DeclareInit == TreeInit /\ SigIdle /\ SuiteIdle /\ ParIdle /\ NoCall

\* the declarations of one process and the run of the tree they build
SpecTree == DeclareInit /\ [][TreeNext]_vars

NodesInit == SuiteInit /\ ParIdle /\ NoCall

\* the nodes of one suite as Suite.Run executes them
SpecSuite == NodesInit /\ [][SuiteNext]_vars

\* the specs of one suite, one after the other, with the signals of each
SpecSiblings == NodesInit /\ [][SiblingNext]_vars

ParallelInit == ParInit /\ RunIdle /\ SigIdle /\ TreeIdle /\ SuiteIdle /\ NoCall

\* the processes of one parallel run at the nodes of the suite
SpecParallel == ParallelInit /\ [][ParNext]_vars

\* one declaration call, under each name the package exports it
SpecCalls == DeclareInit /\ [][CallNext]_vars

\* the signals of one spec
SpecSignal == SignalInit /\ [][SignalNext]_vars

\* ------------------------------------------------------------------------
\* Reading the history
\* ------------------------------------------------------------------------

Has(e) == \E i \in DOMAIN log : log[i].ev = e

Count(e) == Cardinality({i \in DOMAIN log : log[i].ev = e})

\* some e is called before position i
Before(e, i) == \E j \in DOMAIN log : j < i /\ log[j].ev = e

\* some e is called between positions k and i
Between(k, e, i) == \E j \in DOMAIN log : k < j /\ j < i /\ log[j].ev = e

\* the calls by which RunSpecs returns or the process terminates
Terminal == {"Exit1", "ExitFocus", "Return"}

\* RunSpecs has returned or the process has terminated
Terminated == process # "alive" \/ pc = "returned"

\* mode spells the lower-case word w, in any mixture of cases
Spells(mode, w) ==
    /\ Len(mode) = Len(w)
    /\ \A i \in DOMAIN w :
         \E k \in DOMAIN Lowers :
            Lowers[k] = w[i] /\ mode[i] \in {Lowers[k], Uppers[k]}

\* ------------------------------------------------------------------------
\* Claims
\* ------------------------------------------------------------------------

\* C1: only the first RunSpecs call reaches BuildTree and Suite.Run; every
\* later call, made while the suite runs or after the first call returned,
\* prints the RerunningSuite error and exits with status 1 having done
\* nothing but the releases of exitIfErr; suiteDidRun is never reset.
C1_OnlyFirstCallRuns ==
    /\ [](/\ Count("BuildTree") <= 1
          /\ Count("SuiteRun") <= 1
          /\ \A i \in DOMAIN log :
                log[i].call > 1 =>
                   log[i].ev \in {"RunSpecs", "Shutdown", "Close",
                                  "Stderr", "Exit1"}
          /\ callNo > 1 =>
                /\ process = "exit(1)"
                /\ log[Len(log)] = [call |-> callNo, ev |-> "Exit1"]
                /\ stderr[Len(stderr)] = Err("RerunningSuite"))
    /\ [][suiteDidRun => suiteDidRun']_vars

C1_Witness ==
    /\ callNo = 2
    /\ pc = "running"
    /\ process = "exit(1)"
    /\ stderr = <<Err("RerunningSuite")>>

\* C2: once the client connected, Close has been invoked on it whenever
\* RunSpecs has returned or the process has terminated.
C2_ClientClosedOnEveryPath ==
    (Has("ConnectOK") /\ Terminated) => Has("Close")

\* C3: whenever RunSpecs returns or the process terminates while an output
\* interceptor exists, Shutdown was invoked before; after Suite.Run, Shutdown
\* comes before the deprecation report, t.Fail, the exit and the return.
C3_InterceptorShutDownFirst ==
    /\ (Terminated /\ outputInterceptor # "nil") =>
          /\ log[Len(log)].ev \in Terminal
          /\ Before("Shutdown", Len(log))
    /\ \A k \in DOMAIN log, i \in DOMAIN log :
          (/\ log[k].ev = "SuiteRun"
           /\ k < i
           /\ log[i].ev \in {"DeprecationsReport", "TFail", "Exit1",
                             "ExitFocus", "Return"})
          => Between(k, "Shutdown", i)

C3_Witness ==
    /\ process = "exit(1)"
    /\ outputInterceptor = "OutputInterceptor"
    /\ Has("BuildTree")
    /\ ~Has("SuiteRun")

\* the errors for the arguments of unrecognized kind, in argument order
UnknownArgErrors ==
    LET idx == {i \in DOMAIN args : args[i].kind = "Other"}
        f[n \in 0..Len(args)] ==
            IF n = 0 THEN <<>>
            ELSE IF n \in idx
                 THEN Append(f[n - 1], UnknownTypePassedToRunSpecs(args[n]))
                 ELSE f[n - 1]
    IN f[Len(args)]

\* C4 as stated: the error for an unrecognized argument is printed together
\* with every violation of the merged configuration.
C4_ReportedWithVetViolations ==
    (\E i \in DOMAIN args : args[i].kind = "Other") =>
        \A j \in DOMAIN VetConfig(suiteConfig, reporterConfig) :
            \E k \in DOMAIN stderr :
                stderr[k] = VetConfig(suiteConfig, reporterConfig)[j]

\* C4 as amended: the error for an unrecognized argument is printed together
\* with the error for every other unrecognized argument of the call, in
\* argument order, and with nothing else: the merged configuration is not
\* validated in that call.
C4_ReportedWithUnknownArgs ==
    (\E i \in DOMAIN args : args[i].kind = "Other") =>
        /\ stderr = UnknownArgErrors
        /\ process = "exit(1)"
        /\ ~Has("VetConfig")

C4_Witness ==
    /\ Len(stderr) = 2
    /\ stderr[1].err = "UnknownTypePassedToRunSpecs"
    /\ stderr[2].err = "UnknownTypePassedToRunSpecs"
    /\ stderr[1] # stderr[2]

\* the call has a configuration error
HasConfigError ==
    \/ \E i \in DOMAIN args : args[i].kind = "Other"
    \/ VetConfig(suiteConfig, reporterConfig) # <<>>

\* C5: with a configuration error (an argument of unrecognized kind or a
\* VetConfig violation) the process exits with status 1 and nothing was
\* created, set or run.
C5_ConfigErrorRunsNothing ==
    (HasConfigError /\ ~(pc = "vet" /\ process = "alive")) =>
        /\ process = "exit(1)"
        /\ reporter = "nil"
        /\ outputInterceptor = "nil"
        /\ client = "nil"
        /\ writerMode = "initial"
        /\ runArgs = <<>>
        /\ \A e \in {"NewDefaultReporter", "NewClient", "SetMode",
                     "BuildTree", "SuiteRun"} : ~Has(e)

C5_Witness ==
    /\ process = "exit(1)"
    /\ Len(stderr) = 1
    /\ stderr[1].err = "ConflictingVerbosityConfiguration"

\* C6: when Connect fails the process exits with status 1 without BuildTree
\* or Suite.Run, after shutting the selected interceptor down; client is nil
\* and Close is never invoked.
C6_ConnectFailureIsFatal ==
    Has("ConnectFailed") =>
        /\ suiteConfig.ParallelTotal # 1
        /\ process = "exit(1)"
        /\ client = "nil"
        /\ outputInterceptor # "nil"
        /\ ~Has("Close")
        /\ ~Has("BuildTree")
        /\ ~Has("SuiteRun")
        /\ Len(log) >= 4
        /\ [i \in 1..4 |-> log[Len(log) - 4 + i].ev]
              = <<"ConnectFailed", "Shutdown", "Stderr", "Exit1">>

C6_Witness ==
    /\ Has("ConnectFailed")
    /\ outputInterceptor = "OSGlobalReassigningOutputInterceptor"
    /\ Count("Shutdown") = 1

\* C7: what Suite.Run is handed matches the topology.
C7_CollaboratorsMatchTopology ==
    runArgs # <<>> =>
        IF runArgs[1].suiteConfig.ParallelTotal = 1
        THEN /\ runArgs[1].reporter = "DefaultReporter"
             /\ runArgs[1].outputInterceptor = "NoopOutputInterceptor"
             /\ runArgs[1].client = "nil"
        ELSE /\ runArgs[1].reporter = "NoopReporter"
             /\ runArgs[1].client = "connected"
             /\ Has("ConnectOK")
             /\ LET mode == runArgs[1].suiteConfig.OutputInterceptorMode
                IN runArgs[1].outputInterceptor =
                     CASE Spells(mode, <<"s","w","a","p">>) ->
                              "OSGlobalReassigningOutputInterceptor"
                       [] Spells(mode, <<"n","o","n","e">>) ->
                              "NoopOutputInterceptor"
                       [] OTHER -> "OutputInterceptor"

C7_Witness ==
    /\ runArgs # <<>>
    /\ runArgs[1].suiteConfig.ParallelTotal = 2
    /\ runArgs[1].suiteConfig.OutputInterceptorMode = <<"S","w","A","p">>
    /\ runArgs[1].outputInterceptor = "OSGlobalReassigningOutputInterceptor"

C9_OutcomeOfTheRun ==
    suiteResult # <<>> =>
        LET focusExit == /\ suiteResult[1].passed
                         /\ suiteResult[1].hasFocusedTests
                         /\ \A i \in DOMAIN env : IsSpace(env[i])
        IN /\ Has("TFail") <=> ~suiteResult[1].passed
           /\ Count("TFail") <= 1
           /\ (process = GINKGO_FOCUS_EXIT_CODE) <=> focusExit
           /\ Has("ExitFocus") <=> focusExit
           /\ ~focusExit => /\ pc = "returned"
                            /\ Has("Return")
                            /\ retval = <<suiteResult[1].passed>>
           /\ focusExit => retval = <<>>

C9_Witness ==
    /\ process = GINKGO_FOCUS_EXIT_CODE
    /\ env = <<" ", "\t">>

\* the state the signals made so far must have left in the Failer
ExpectedState ==
    IF \E i \in DOMAIN signalled : signalled[i].kind = "AbortSuite"
    THEN "Aborted"
    ELSE IF signalled = <<>>
         THEN "Passed"
         ELSE CASE signalled[1].kind = "Fail" -> "Failed"
                [] signalled[1].kind = "Skip" -> "Skipped"
                [] signalled[1].kind = "Panic" -> "Panicked"

\* C10: whatever signals a spec raises, the Failer holds one outcome: that
\* of the first signal, or Aborted as soon as an AbortSuite was signalled;
\* that is the outcome the Suite reads.
C10_FirstSignalWinsButAbort ==
    /\ failer.state = ExpectedState
    /\ (failer.state = "Passed") <=> (failer.failure = NoFailure)
    /\ outcome # <<>> => outcome = <<ExpectedState>>

C10_Witness ==
    /\ outcome = <<"Aborted">>
    /\ Len(signalled) >= 3
    /\ signalled[1].kind = "Fail"
    /\ signalled[Len(signalled)].kind = "Panic"
    /\ \E i \in DOMAIN signalled : i > 1 /\ signalled[i].kind = "AbortSuite"

\* goroutine g called Fail before anything else was signalled, and its
\* deferred GinkgoRecover has forwarded the panic of Fail
FailedInGoroutine(g) ==
    /\ g \in Goroutines
    /\ Len(signalled) >= 2
    /\ signalled[1] = [kind |-> "Fail", task |-> g]
    /\ \E i \in DOMAIN signalled : signalled[i] = [kind |-> "Panic", task |-> g]
    /\ \A i \in DOMAIN signalled : signalled[i].kind # "AbortSuite"

\* C11 as stated: a Fail inside a goroutine that deferred GinkgoRecover
\* leaves a failure of kind Panic carrying the payload of the unwinding.
C11_GoroutineFailIsPanic ==
    \A g \in Goroutines :
        FailedInGoroutine(g) =>
            /\ failer.state = "Panicked"
            /\ failer.failure.forwardedPanic # "none"

\* C11 as amended: a Fail inside a goroutine that deferred GinkgoRecover
\* leaves the failure Fail itself recorded, of kind Failure with the message
\* and the location of the call; the panic GinkgoRecover forwards afterwards
\* is ignored, so no payload is kept.
C11_GoroutineFailIsFailure ==
    \A g \in Goroutines :
        FailedInGoroutine(g) =>
            /\ failer.state = "Failed"
            /\ failer.failure.message \in Messages
            /\ failer.failure.location.task = g
            /\ failer.failure.forwardedPanic = "none"
            /\ outcome # <<>> => outcome = <<"Failed">>

C11_Witness ==
    /\ outcome = <<"Failed">>
    /\ signalled = <<[kind |-> "Fail", task |-> <<"go", 1>>],
                     [kind |-> "Panic", task |-> <<"go", 1>>]>>
    /\ task[<<"go", 1>>].st = "done"

\* the state a signal of kind k leaves in a Failer that recorded nothing
StateOf(k) ==
    CASE k = "Fail" -> "Failed"
      [] k = "Skip" -> "Skipped"
      [] k = "AbortSuite" -> "Aborted"
      [] k = "Panic" -> "Panicked"

\* task t has called Fail, Skip or AbortSuite
Signalled(t) ==
    \E i \in DOMAIN signalled :
        signalled[i].task = t /\ signalled[i].kind # "Panic"

\* C20: Fail, Skip and AbortSuite report their kind, message and location to
\* the Failer and, in the same call, panic with the framework's payload for
\* that location; the caller never runs on: it makes no second call and
\* never returns normally, also when the Failer ignored the report.
C20_ReportThenPanic ==
    /\ [][\A t \in Tasks :
            (/\ Len(signalled') = Len(signalled) + 1
             /\ signalled'[Len(signalled')].task = t
             /\ signalled'[Len(signalled')].kind # "Panic")
            => /\ task[t].st = "running"
               /\ task'[t].st = "panicking"
               /\ task'[t].payload[1].sentinel
               /\ task'[t].payload[1].cl.task = t
               /\ failer.state = "Passed" =>
                     /\ failer'.state = StateOf(signalled'[Len(signalled')].kind)
                     /\ failer'.failure.message \in Messages
                     /\ failer'.failure.location = task'[t].payload[1].cl
                     /\ failer'.failure.forwardedPanic = "none"]_vars
    /\ [](\A t \in Tasks :
            Signalled(t) =>
               /\ task[t].st \in {"panicking", "done"}
               /\ Cardinality({i \in DOMAIN signalled :
                                  /\ signalled[i].task = t
                                  /\ signalled[i].kind # "Panic"}) = 1)

C20_Witness ==
    /\ failer.state = "Failed"
    /\ Len(signalled) = 2
    /\ signalled[2].kind = "Skip"
    /\ task[signalled[2].task].st = "panicking"

\* C21: the deferred GinkgoRecover of a goroutine ends every unwinding that
\* reaches it, raised by the framework or by user code: the goroutine is
\* over with nothing left to propagate, and the payload is reported to the
\* Failer as a Panic, which a Failer that recorded nothing keeps with that
\* payload; when the goroutine returns without a panic, the Failer and the
\* reports made to it are left as they were.
C21_RecoverForwardsEveryPanic ==
    [][\A g \in Goroutines :
          (task[g].st \in {"panicking", "returning"} /\ task'[g] # task[g]) =>
             /\ task'[g] = [st |-> "done", payload |-> <<>>]
             /\ IF task[g].payload # <<>>
                THEN /\ signalled' = Append(signalled,
                                            [kind |-> "Panic", task |-> g])
                     /\ failer.state = "Passed" =>
                           /\ failer'.state = "Panicked"
                           /\ failer'.failure.forwardedPanic = task[g].payload[1]
                ELSE /\ failer' = failer
                     /\ signalled' = signalled]_vars

\* a goroutine panicked with a payload of user code, its GinkgoRecover ran,
\* and the Failer holds that payload; another goroutine returned normally
C21_Witness ==
    /\ failer.state = "Panicked"
    /\ failer.failure.forwardedPanic = UserPayload
    /\ signalled = <<[kind |-> "Panic", task |-> <<"go", 1>>]>>
    /\ task[<<"go", 1>>].st = "done"
    /\ task[<<"go", 2>>].st = "done"

\* the place in signalled of the report whose record the Failer must hold:
\* the last AbortSuite when there is one, else the first report
Decisive ==
    IF \E i \in DOMAIN signalled : signalled[i].kind = "AbortSuite"
    THEN CHOOSE i \in DOMAIN signalled :
            /\ signalled[i].kind = "AbortSuite"
            /\ \A k \in DOMAIN signalled :
                  signalled[k].kind = "AbortSuite" => k <= i
    ELSE 1

\* C22: under every interleaving of the reports of the main path and of the
\* goroutines, the Failer holds nothing before the first report and after it
\* one record, all of whose fields are those of one report: the first, or an
\* AbortSuite when one was made; the state, the location, the message and
\* the payload belong together, and the Suite reads that record.
C22_OneRecordUnderRaces ==
    IF signalled = <<>>
    THEN failer = FailerReset
    ELSE LET r == signalled[Decisive]
             f == failer.failure
         IN /\ failer.state = StateOf(r.kind)
            /\ f # NoFailure
            /\ f.location.task = r.task
            /\ IF r.kind = "Panic"
               THEN /\ f.message = "Test Panicked"
                    /\ f.forwardedPanic.sentinel \in BOOLEAN
               ELSE /\ f.message \in Messages
                    /\ f.forwardedPanic = "none"
            /\ outcome # <<>> => outcome = <<StateOf(r.kind)>>

\* the main path and both goroutines reported, a goroutine first with Skip,
\* and the Suite read Skipped
C22_Witness ==
    /\ outcome = <<"Skipped">>
    /\ Len(signalled) >= 3
    /\ signalled[1] = [kind |-> "Skip", task |-> <<"go", 2>>]
    /\ \E i \in DOMAIN signalled : signalled[i] = [kind |-> "Fail", task |-> Main]
    /\ \E i \in DOMAIN signalled : signalled[i].task = <<"go", 1>>
    /\ failer.failure.location.task = <<"go", 2>>

\* ------------------------------------------------------------------------
\* Claims about the declared tree
\* ------------------------------------------------------------------------

\* the declaration of node n asked for Pending: by its name or by a decorator
DeclaredPending(n) == n.askedPending

\* the declaration of node n asked for Focus: by its name or by a decorator
DeclaredFocus(n) == n.askedFocus

DeclaredSubjects == {i \in DOMAIN nodes : nodes[i].type = "It"}

\* Subject i or a container around it was declared Pending
UnderPending(i) ==
    \E j \in {i} \cup Ancestors(nodes, i) : DeclaredPending(nodes[j])

\* Subject i or a container around it was declared with Focus, and no
\* container around it was declared Pending
UnderFocus(i) ==
    /\ \E j \in {i} \cup Ancestors(nodes, i) : DeclaredFocus(nodes[j])
    /\ \A j \in Ancestors(nodes, i) : ~DeclaredPending(nodes[j])

\* C12: in the run of any declared tree, a Subject declared Pending, or
\* inside a container declared Pending, is not executed, whatever Focus the
\* Subject, its containers or the rest of the tree carry.
C12_PendingNeverExecuted ==
    phase = "ran" =>
        \A i \in DeclaredSubjects :
            UnderPending(i) => i \notin treeResult[1].executed

\* a tree was run in which a focused Subject sits in a Pending container
\* next to a Subject that was executed
C12_Witness ==
    /\ phase = "ran"
    /\ \E i \in DeclaredSubjects :
         /\ nodes[i].askedFocus
         /\ nodes[i].parent # 0
         /\ nodes[nodes[i].parent].askedPending
         /\ i \notin treeResult[1].executed
    /\ treeResult[1].executed # {}

\* C13: in the run of any declared tree, when some Subject is effectively
\* focused every Subject that is not is skipped and hasFocusedTests is
\* reported true; when none is, hasFocusedTests is false and only Pending
\* Subjects are skipped.
C13_FocusSkipsTheRest ==
    phase = "ran" =>
        LET r == treeResult[1]
            focused == {i \in DeclaredSubjects : UnderFocus(i)}
        IN IF focused # {}
           THEN /\ (DeclaredSubjects \ focused) \subseteq r.skipped
                /\ r.hasFocusedTests
           ELSE /\ ~r.hasFocusedTests
                /\ \A i \in r.skipped : UnderPending(i)

\* a tree was run in which a container declared by FDescribe holds the
\* executed Subject and a Subject outside it was skipped
C13_Witness ==
    /\ phase = "ran"
    /\ treeResult[1].hasFocusedTests
    /\ \E i, k \in DeclaredSubjects :
         /\ nodes[i].parent # 0
         /\ nodes[nodes[i].parent].askedFocus
         /\ ~nodes[i].askedFocus
         /\ i \in treeResult[1].executed
         /\ ~nodes[k].askedFocus
         /\ k \in treeResult[1].skipped

\* C17: DeferCleanup called while no Setup or Subject node is executing
\* registers no cleanup node and ends the process with status 1, after the
\* Shutdown of an existing interceptor and the Close of an existing client.
C17_CleanupOutsideNodeIsFatal ==
    /\ \A i \in DOMAIN nodes : nodes[i].type # "Cleanup"
    /\ \A i \in DOMAIN log :
         log[i].ev = "DeferCleanup" =>
            /\ process = "exit(1)"
            /\ treeResult = <<>>
            /\ log[Len(log)].ev = "Exit1"
            /\ (outputInterceptor # "nil") =
                   (\E k \in i + 1 .. Len(log) : log[k].ev = "Shutdown")
            /\ (client # "nil") =
                   (\E k \in i + 1 .. Len(log) : log[k].ev = "Close")

\* DeferCleanup was called in the body of a container of a parallel run
C17_Witness ==
    /\ Has("DeferCleanup")
    /\ Has("Shutdown")
    /\ Has("Close")
    /\ open # <<>>

\* ------------------------------------------------------------------------
\* Claims about the run of the nodes
\* ------------------------------------------------------------------------

\* the run of the suite is over
SuiteOver == runPassed # <<>>

\* C14: when the body of a Setup or Subject node calls AbortSuite, the node
\* ends Aborted and its spec is recorded Aborted, no Subject is executed
\* later in the run, and the run does not pass.
C14_AbortStopsTheRun ==
    \A i \in DOMAIN trace :
        (trace[i].what = "node" /\ trace[i].aborts) =>
            /\ trace[i].state = "Aborted"
            /\ trace[i].spec # 0 => specState[trace[i].spec] = "Aborted"
            /\ \A k \in DOMAIN trace : k > i => trace[k].role # "It"
            /\ runPassed # <<TRUE>>

\* the Subject of the first spec called AbortSuite, and the run ended with
\* the second spec not executed
C14_Witness ==
    /\ runPassed = <<FALSE>>
    /\ specState[1] = "Aborted"
    /\ specState[2] = "Skipped"
    /\ \E i \in DOMAIN trace :
         trace[i].role = "It" /\ trace[i].spec = 1 /\ trace[i].aborts

\* the place in plan of the last node of spec s
LastPlace(s) ==
    CHOOSE i \in DOMAIN plan :
        plan[i].spec = s /\ \A k \in DOMAIN plan : plan[k].spec = s => k <= i

EachRoles == {"BeforeEach", "JustBeforeEach", "It", "AfterEach", "JustAfterEach"}

AllRoles == {"BeforeAll", "AfterAll"}

\* the place in plan of the node after which the cleanup of the call c is
\* to run: the end of the spec, of the Ordered container, or of the suite
Due(c) ==
    CASE c.role \in EachRoles -> LastPlace(c.spec)
      [] c.role \in AllRoles -> LastPlace(MaxSpecs)
      [] c.role \in SuiteRoles -> Len(plan)

\* the places in trace where the cleanup of call c was invoked
Invocations(c) ==
    {k \in DOMAIN trace : trace[k].what = "cleanup" /\ trace[k].id = c.id}

\* C15: the cleanup of a DeferCleanup call runs when the scope given by the
\* role of the node that made the call completes: the spec for the hooks
\* around a Subject and the Subject, the Ordered container for BeforeAll and
\* AfterAll, the suite for the nodes of the suite.
C15_ScopeFollowsRole ==
    \A n \in DOMAIN deferCalls :
        LET c == deferCalls[n]
        IN /\ \A k \in Invocations(c) : trace[k].after = Due(c)
           /\ at > Due(c) => Invocations(c) # {}

\* a run is over in which a cleanup registered in BeforeAll and one
\* registered in the Subject of the same spec ran at different places
C15_Witness ==
    /\ SuiteOver
    /\ Len(deferCalls) = 2
    /\ deferCalls[1].role = "BeforeAll"
    /\ deferCalls[2].role = "It"
    /\ deferCalls[2].spec = 1
    /\ \E k, l \in DOMAIN trace :
         /\ trace[k].what = "cleanup" /\ trace[k].id = 1
         /\ trace[l].what = "cleanup" /\ trace[l].id = 2
         /\ l < k
         /\ trace[l].after < trace[k].after

\* the calls c and d registered their cleanups in the same scope
SameScope(c, d) ==
    \/ c.role \in EachRoles /\ d.role \in EachRoles /\ c.spec = d.spec
    \/ c.role \in AllRoles /\ d.role \in AllRoles
    \/ c.role \in SuiteRoles /\ d.role \in SuiteRoles

\* C16: a cleanup registered by DeferCleanup is invoked at most once and,
\* once the run is over, exactly once; it is invoked after every node of the
\* spec that registered it, executed or not, also when the spec failed; and
\* of two cleanups of one scope the one registered last is invoked first.
C16_OnceAndLastFirst ==
    /\ \A n \in DOMAIN deferCalls :
         LET c == deferCalls[n]
         IN /\ Cardinality(Invocations(c)) <= 1
            /\ SuiteOver => Cardinality(Invocations(c)) = 1
            /\ \A k \in Invocations(c) :
                 /\ \A j \in DOMAIN trace :
                      (trace[j].what = "node" /\ trace[j].spec = c.spec) => j < k
                 /\ c.spec # 0 => trace[k].after >= LastPlace(c.spec)
    /\ \A n, m \in DOMAIN deferCalls :
         (n < m /\ SameScope(deferCalls[n], deferCalls[m])) =>
            \A k \in Invocations(deferCalls[n]), l \in Invocations(deferCalls[m]) :
                l < k

\* a run is over in which a spec failed after its hook and its Subject each
\* registered a cleanup, and both were invoked
C16_Witness ==
    /\ SuiteOver
    /\ Len(deferCalls) = 2
    /\ deferCalls[1].role \in {"BeforeEach", "JustBeforeEach"}
    /\ deferCalls[2].role = "It"
    /\ deferCalls[1].spec = deferCalls[2].spec
    /\ specState[deferCalls[1].spec] = "Failed"
    /\ Invocations(deferCalls[1]) # {}
    /\ Invocations(deferCalls[2]) # {}

\* ------------------------------------------------------------------------
\* Claims about the processes of a parallel run
\* ------------------------------------------------------------------------

\* the places in ranFns where fn ran on process p
Runs(fn, p) == {k \in DOMAIN ranFns : ranFns[k].fn = fn /\ ranFns[k].proc = p}

RunsAnywhere(fn) == {k \in DOMAIN ranFns : ranFns[k].fn = fn}

\* C18: the first function of SynchronizedBeforeSuite runs on process #1
\* alone and at most once; the second runs at most once on a process, only
\* after the first returned without failing, with the bytes it returned, and
\* it has run on every process that is past the node of such a run; it runs
\* on no process when the first failed.
C18_FirstOnOneThenAll ==
    /\ \A k \in RunsAnywhere("before.first") : ranFns[k].proc = 1
    /\ Cardinality(RunsAnywhere("before.first")) <= 1
    /\ \A k \in RunsAnywhere("before.second") :
         \E j \in RunsAnywhere("before.first") :
            /\ j < k
            /\ ranFns[j].ok
            /\ ranFns[k].data = ranFns[j].data
    /\ \A p \in Procs :
         /\ Cardinality(Runs("before.second", p)) <= 1
         /\ (where[p] \notin {"start", "ready"} /\ barrier.state = "passed") =>
                Runs("before.second", p) # {}

\* in a run of three processes the second function has run on all of them
\* with the bytes "d2"
C18_Witness ==
    /\ total = 3
    /\ \A p \in Procs :
         \E k \in Runs("before.second", p) : ranFns[k].data = <<"d2">>

\* C19: the first function of SynchronizedAfterSuite has run on every
\* process that exited; the second runs on process #1 alone, after the
\* first ran on process #1 and when every other process has exited.
C19_LastOnOneAfterAll ==
    /\ \A p \in Procs :
         where[p] \in {"waiting", "exited"} =>
            Cardinality(Runs("after.first", p)) = 1
    /\ \A k \in RunsAnywhere("after.second") :
         /\ ranFns[k].proc = 1
         /\ \E j \in Runs("after.first", 1) : j < k
         /\ \A q \in Procs \ {1} : where[q] = "exited"
    /\ Cardinality(RunsAnywhere("after.second")) <= 1

\* in a run of three processes the second function has run on process #1
C19_Witness ==
    /\ total = 3
    /\ Runs("after.second", 1) # {}
    /\ \A q \in Procs : Runs("after.first", q) # {}

\* ------------------------------------------------------------------------
\* Claims about the specs of one run
\* ------------------------------------------------------------------------

\* the places in trace of the nodes of spec s that were executed
NodesOf(s) == {k \in DOMAIN trace : trace[k].what = "node" /\ trace[k].spec = s}

\* the node at place i of the plan was executed
WasExecuted(i) ==
    \E k \in DOMAIN trace : trace[k].what = "node" /\ trace[k].id = i

\* no node executed before place i called AbortSuite, and the node before
\* the specs passed
NothingStops(i) ==
    \A k \in DOMAIN trace :
        (trace[k].what = "node" /\ trace[k].id < i) =>
            /\ trace[k].state # "Aborted"
            /\ trace[k].spec = 0 => trace[k].state = "Passed"

\* C23: a Fail, a Skip or a recovered panic in a spec ends that spec only.
\* The process stays alive; the Failer is reset when the next node body
\* starts; the Subject of a later spec is executed when its own hooks passed,
\* whatever happened in the specs before; a spec none of whose nodes
\* signalled is recorded Passed, and a spec one of whose nodes signalled is
\* recorded with that signal: all unless AbortSuite was called.
C23_FailureEndsOnlyItsSpec ==
    /\ [][(task[Main].st # "running" /\ task'[Main].st = "running")
             => failer' = FailerReset]_vars
    /\ [](/\ process = "alive"
          /\ \A i \in DOMAIN plan :
                (/\ plan[i].role = "It"
                 /\ at > i
                 /\ NothingStops(i)
                 /\ \A k \in NodesOf(plan[i].spec) :
                       trace[k].id < i => trace[k].state = "Passed")
                => WasExecuted(i)
          /\ \A s \in DOMAIN specState :
                (/\ at > LastPlace(s)
                 /\ NodesOf(s) # {}
                 /\ \A k \in NodesOf(s) : trace[k].state # "Aborted")
                => IF \A k \in NodesOf(s) : trace[k].state = "Passed"
                   THEN specState[s] = "Passed"
                   ELSE \E k \in NodesOf(s) :
                           /\ trace[k].state = specState[s]
                           /\ specState[s] # "Passed"
                           /\ \A j \in NodesOf(s) :
                                 j < k => trace[j].state = "Passed")

\* the run is over: the Subject of the first spec panicked and the panic
\* was recovered, and the second spec was executed and recorded Passed
C23_Witness ==
    /\ SuiteOver
    /\ specState[1] = "Panicked"
    /\ specState[2] = "Passed"
    /\ \E k \in NodesOf(1) : trace[k].role = "It" /\ trace[k].state = "Panicked"
    /\ \E k \in NodesOf(2) : trace[k].role = "It"

\* ------------------------------------------------------------------------
\* Claims about the names of the declaration calls
\* ------------------------------------------------------------------------

\* the call each name stands for, and the decorator the name adds
BaseOf(fn) ==
    IF fn \in {"It", "FIt", "PIt", "XIt",
               "Specify", "FSpecify", "PSpecify", "XSpecify"}
    THEN "It"
    ELSE "Describe"

ExtraOf(fn) ==
    IF fn \in {"FDescribe", "FContext", "FWhen", "FIt", "FSpecify"}
    THEN <<"Focus">>
    ELSE IF fn \in {"Describe", "Context", "When", "It", "Specify"}
         THEN <<>>
         ELSE <<"Pending">>

\* what Describe or It gives for the arguments of the call on record and
\* the decorator of its name
BaseCall ==
    LET c == called[1]
    IN IF BaseOf(c.fn) = "It"
       THEN It(c.text, c.args \o ExtraOf(c.fn))
       ELSE Describe(c.text, c.args \o ExtraOf(c.fn))

\* C24: a declaration call under any name registers what Describe (for a
\* container name) or It (for a subject name) registers for the same text and
\* the same arguments followed by Focus for an F name, by Pending for a P or
\* an X name and by nothing for Context, When and Specify: the same node, or
\* the same errors and the same exit
C24_VariantsAreSugar ==
    called # <<>> =>
        LET b  == BaseCall
            es == pushNode(b.node, b.errors, FALSE, outputInterceptor, client)
        IN IF Exits(es)
           THEN /\ process = "exit(1)"
                /\ nodes = <<>>
                /\ stderr = pushNodeErrors(b.node, b.errors, FALSE)
                /\ log = Ev(callNo, <<called[1].fn>> \o es)
           ELSE /\ process = "alive"
                /\ Len(nodes) = 1
                /\ [type |-> nodes[1].type, text |-> nodes[1].text,
                    focus |-> nodes[1].focus, pending |-> nodes[1].pending]
                      = b.node
                /\ open = IF b.node.type = "Container" THEN <<1>> ELSE <<>>
                /\ stderr = <<>>

\* XWhen without a decorator registered a pending container
C24_Witness ==
    /\ called # <<>>
    /\ called[1].fn = "XWhen"
    /\ called[1].args = <<>>
    /\ Len(nodes) = 1
    /\ nodes[1].type = "Container"
    /\ nodes[1].pending
    /\ ~nodes[1].focus

\* ------------------------------------------------------------------------
\* Claims about the release of the resources over the calls of one process
\* ------------------------------------------------------------------------

\* C25: over all the calls of RunSpecs in one process, Shutdown is invoked at
\* most once on the output interceptor and Close at most once on the
\* connected client (one process selects one interceptor and connects one
\* client, since only its first call of RunSpecs gets that far): what a
\* completed run released is not released again by a later error exit.
C25_ReleasedAtMostOnce ==
    /\ Count("Shutdown") <= 1
    /\ Count("Close") <= 1

====
